---- MODULE Spec2Model ----
(***************************************************************************)
(* Synthetic grocery data set: generation (customers, orders), the raw    *)
(* to ML-ready transforms of the data preparation notebook, and the two   *)
(* batch ingestion scripts (sklearn and PySpark) that transform orders.   *)
(***************************************************************************)
EXTENDS Integers, Sequences, FiniteSets, TLC

VARIABLES
    SEED,          \* the seed given to random.seed / faker.seed_instance
    N,             \* number of customers the customer cell is set to generate
    M,             \* number of orders the order cell is set to generate
    pc,            \* the notebook cell (or script) that runs next
    run,           \* 1 on the first generation run, 2 after a re-run
    rnd,           \* state of the `random` module generator
    fk,            \* state of the faker instance generator
    now,           \* wall clock, read by generate_event_timestamp
    n,             \* the notebook variable n
    i,             \* loop index of the running generation loop
    customer,      \* the notebook variable customer (last generated)
    customers,     \* list of generated Customer objects
    customer_ids,  \* list of generated customer ids
    customers_df,  \* the customers data frame
    product_ids,   \* list of product ids of the loaded product table
    order,         \* the notebook variable order (last generated)
    orders,        \* list of generated Order objects
    orders_df,     \* the orders data frame
    prev,          \* customers and orders lists of the run before a re-run
    files,         \* the CSV files written under data/raw and data/transformed
    label_encoder, \* classes_ of the notebook's LabelEncoder after its last fit
    min_max_scaler,\* data_min_, data_max_ of the notebook's MinMaxScaler
    sk_df,         \* the frame the sklearn processing script hands to ingest
    spark_df,      \* the frame the PySpark processing script hands to ingest
    response,      \* what fg.ingest returned to the sklearn script
    job_log,       \* the BATCH INGESTION lines the sklearn script has logged
    job_error,     \* the exception that stopped the sklearn script, or "none"
    colA,          \* a categorical column given to an encoder
    colB,          \* another categorical column given to the same encoder
    encoder,       \* the encoder fitted on colA and colB: "none" before
    mapA,          \* value -> integer mapping fitted on colA
    mapB,          \* value -> integer mapping fitted on colB
    scol,          \* a numeric column given to a scaler
    scaler,        \* the scaler applied to scol: "none" before
    scaled,        \* the scaled column
    cell,          \* the cell of the training notebook that runs next
    data_files,    \* the CSV files the training notebook reads and writes
    full_df,       \* the training notebook's df
    shuffled,      \* df.sample(frac=1, random_state=123)
    train_df,      \* the train part of the split
    validation_df, \* the validation part of the split
    test_df,       \* the test part of the split, then test.csv as read back
    record,        \* the row sampled from test_df
    payload,       \* the values sent to the endpoint
    fg_status,     \* FeatureGroupStatus of each feature group on the platform
    fg_cell,       \* where the feature store notebook stands
    fg_k,          \* the feature group the notebook's current cell is about
    status,        \* the variable status of each call of the wait function
    waits,         \* 'Waiting for feature group' lines logged, per group
    logged,        \* groups logged as successfully created
    ingested,      \* groups whose ingest cell has called ingest
    pl_cell,       \* the cell of the pipeline notebook that runs next
    trigger,       \* whether the S3 trigger of the Lambda function is attached
    uploaded,      \* the data files in the bucket, as <<prefix, file>> keys
    events,        \* S3 object-created events not yet handed to the Lambda
    invoked,       \* the keys the Lambda function has been invoked for
    flow_files,    \* the flow files written by the Lambda function
    executions,    \* the executions of the pipeline started so far
    mon_cell,      \* the monitoring cell of the pipeline notebook that runs next
    exec_status,   \* PipelineExecutionStatus of latest_execution on the platform
    exec_response, \* response['PipelineExecutionStatus'] as last described
    printed,       \* what the two wait loops have printed and logged
    stored_counts, \* customers_count, products_count, orders_count of %store -r
    totals,        \* the three *_total_record_count of the last poll
    offline_store_contents, \* the loop variable of the offline store wait
    athena_runs,   \* calls of orders_query.run
    part_cell,     \* the cell of the partition notebook that runs next
    orders_csv,    \* the file data/raw/orders.csv the partition notebook reads
    part_df,       \* the partition notebook's df
    grouped,       \* the groups of df.groupby('year_month') not yet written
    partitions,    \* the directory data/partitions: name -> files
    part_runs      \* input and resulting directory of each finished run

genVars == <<SEED, N, M, pc, run, rnd, fk, now, n, i, customer, customers,
             customer_ids, customers_df, product_ids, order, orders,
             orders_df, prev>>

\* the outcome of the sklearn processing job
jobVars == <<response, job_log, job_error>>

trVars == <<files, label_encoder, min_max_scaler, sk_df, spark_df, jobVars>>

encVars == <<colA, colB, encoder, mapA, mapB>>

scaleVars == <<scol, scaler, scaled>>

trainVars == <<cell, data_files, full_df, shuffled, train_df, validation_df,
               test_df, record, payload>>

fgVars == <<fg_status, fg_cell, fg_k, status, waits, logged, ingested>>

pipeVars == <<pl_cell, trigger, uploaded, events, invoked, flow_files,
              executions>>

\* the notebooks other than the data preparation notebook
monVars == <<mon_cell, exec_status, exec_response, printed, stored_counts,
             totals, offline_store_contents, athena_runs>>

partVars == <<part_cell, orders_csv, part_df, grouped, partitions, part_runs>>

notebookVars == <<trainVars, fgVars, pipeVars, monVars, partVars>>

\* the data preparation notebook, its processing scripts and its functions
prepVars == <<genVars, trVars, encVars, scaleVars>>

\* what the data preparation notebook and its scripts leave alone: the
\* columns the encoders and scalers are applied to on their own, and the
\* other notebooks
fnVars == <<encVars, scaleVars, notebookVars>>

vars == <<genVars, trVars, encVars, scaleVars, notebookVars>>

----------------------------------------------------------------------------
(* Bounds of the model *)

MaxSeed == 77       \* seeds 0..MaxSeed
MaxN == 3           \* customers per run 1..MaxN
MaxM == 3           \* orders per run 1..MaxM
MaxClock == 1       \* wall clock readings 0..MaxClock
NumProducts == 2    \* rows of the loaded product table

Seeds == 0..MaxSeed

----------------------------------------------------------------------------
(* Seeded pseudo random sources.  The generators of `random` and faker are *)
(* deterministic functions of their seed; they are modelled by a Lehmer    *)
(* generator over 1..Modulus-1, each draw reading the state as the         *)
(* fraction state/Modulus of the unit interval and then advancing it.      *)

Modulus == 79
Multiplier == 34

\* variant: the generators are seeded from the wall clock, not from SEED
SeedFromClock(seed) == 1 + ((seed + now) % (Modulus - 1))

SeedState(seed) == 1 + (seed % (Modulus - 1))

Advance(s) == (Multiplier * s) % Modulus

RECURSIVE AdvanceBy(_, _)
AdvanceBy(s, k) == IF k = 0 THEN s ELSE AdvanceBy(Advance(s), k - 1)

\* an integer of 0..k-1, uniform in the state
RandBelow(s, k) == (s * k) \div Modulus

randint_from_zero(s, a, b) == RandBelow(s, b + 1)

\* random.randint(a, b): both ends included
randint(s, a, b) == a + RandBelow(s, b - a + 1)

\* random.choice(seq)
choice(s, seq) == seq[1 + RandBelow(s, Len(seq))]

\* round(random.random(), 2), in hundredths
random_round2(s) == (200 * s + Modulus) \div (2 * Modulus)

\* faker.boolean()
faker_boolean(s) == RandBelow(s, 2) = 1

----------------------------------------------------------------------------
(* Dates are day numbers counted from 2016-01-01 (day 0).                  *)

ActiveSinceStart == 0       \* '2016-01-01 00:00:00'
ActiveSinceEnd == 1461      \* '2020-01-01 00:00:01'
PurchasedOnStart == 1461    \* '2020-01-01 00:01:01'
PurchasedOnEnd == 1978      \* '2021-06-01 00:00:01'

\* generate_timestamp(start, end): a moment between start and end, its day
generate_timestamp(s, start, end) == start + RandBelow(s, end - start + 1)

NamePool == <<"ann lee", "bob ray", "cy dunn">>
SexPool == <<"F", "M">>
StatePool == <<"ohio", "texas", "utah">>

\* variant: the identifier keeps only the last bit of the number
FormatIdLastBit(prefix, k) == prefix \o ToString(k % 2)

\* f'C{i}', f'O{i}'
FormatId(prefix, k) == prefix \o ToString(k)

\* generate_customer(i), reading faker state f, random state r, clock t
generate_customer(k, f, r, t) ==
    [customer_id  |-> FormatId("C", k),
     name         |-> choice(f, NamePool),
     sex          |-> choice(AdvanceBy(f, 1), SexPool),
     state        |-> choice(AdvanceBy(f, 2), StatePool),
     age          |-> randint(r, 18, 91),
     is_married   |-> faker_boolean(AdvanceBy(f, 3)),
     active_since |-> generate_timestamp(AdvanceBy(f, 4), ActiveSinceStart,
                                         ActiveSinceEnd),
     event_time   |-> t]

CustomerFakerDraws == 5
CustomerRandomDraws == 1

\* variant: the customer of an order is numbered at random, not drawn from
\* the generated identifiers
generate_order_any_customer(k, f, r, t) ==
    [order_id        |-> "O" \o ToString(k),
     customer_id     |-> "C" \o ToString(randint(r, 1, MaxN + 1)),
     product_id      |-> choice(AdvanceBy(r, 1), product_ids),
     purchase_amount |-> 100 * randint(AdvanceBy(r, 2), 1, 101)
                           + random_round2(AdvanceBy(r, 3)),
     is_reordered    |-> choice(AdvanceBy(r, 4), <<1, 1, 0>>),
     purchased_on    |-> generate_timestamp(f, PurchasedOnStart,
                                            PurchasedOnEnd),
     event_time      |-> t]

\* generate_order(i), reading faker state f, random state r, clock t
generate_order(k, f, r, t) ==
    [order_id        |-> FormatId("O", k),
     customer_id     |-> choice(r, customer_ids),
     product_id      |-> choice(AdvanceBy(r, 1), product_ids),
     purchase_amount |-> 100 * randint(AdvanceBy(r, 2), 1, 101)
                           + random_round2(AdvanceBy(r, 3)),
     is_reordered    |-> choice(AdvanceBy(r, 4), <<1, 1, 0>>),
     purchased_on    |-> generate_timestamp(f, PurchasedOnStart,
                                            PurchasedOnEnd),
     event_time      |-> t]

OrderFakerDraws == 1
OrderRandomDraws == 5

\* the product table read from product_category_mapping.csv
ProductTable == [k \in 1..NumProducts |-> [product_id |-> FormatId("P", k)]]

\* variant: the loop runs once more
InRangeInclusive(idx, cnt) == idx <= cnt

\* for i in range(n): the body runs for i = 0 .. n-1
InRange(idx, cnt) == idx < cnt

\* pd.DataFrame([x.as_dict() for x in xs]): columns in as_dict order
CustomerColumns == <<"customer_id", "name", "sex", "state", "age",
                     "is_married", "active_since", "event_time">>
OrderColumns == <<"order_id", "customer_id", "product_id", "purchase_amount",
                  "is_reordered", "purchased_on", "event_time">>

DataFrame(cols, objs) == [columns |-> cols, rows |-> objs]

NoFrame == [columns |-> <<>>, rows |-> <<>>]

NoFiles == [raw_customers |-> NoFrame, raw_orders |-> NoFrame,
            transformed_customers |-> NoFrame, transformed_orders |-> NoFrame]

\* before fg.ingest has returned
NoResponse == <<>>

\* the training notebook before its first cell has run
IdleTrain ==
    /\ cell = "load"
    /\ data_files = <<>>
    /\ full_df = <<>>
    /\ shuffled = <<>>
    /\ train_df = <<>>
    /\ validation_df = <<>>
    /\ test_df = <<>>
    /\ record = <<>>
    /\ payload = <<>>

FeatureGroups == <<"customers", "products", "orders">>

\* the feature store notebook before its first create cell has run
IdleFeatureGroups ==
    /\ fg_status = [g \in 1..Len(FeatureGroups) |-> "None"]
    /\ fg_cell = "create"
    /\ fg_k = 1
    /\ status = [g \in 1..Len(FeatureGroups) |-> "None"]
    /\ waits = [g \in 1..Len(FeatureGroups) |-> 0]
    /\ logged = {}
    /\ ingested = {}

\* the pipeline notebook with the pipeline and the Lambda function created,
\* before the trigger cell has run
IdlePipeline ==
    /\ pl_cell = "create_trigger"
    /\ trigger = FALSE
    /\ uploaded = {}
    /\ events = {}
    /\ invoked = {}
    /\ flow_files = {}
    /\ executions = {}

\* the other notebooks before their first cell has run
\* Python's None; a variable that holds the number k holds <<k>>
None == <<>>

\* what the wait loops of the pipeline notebook have printed: the lines
\* 'Pipeline is still in Executing status...' and '[Waiting for data in
\* Offline Store ...]' are counted, the closing lines are flags
NothingPrinted == [still |-> 0, done |-> FALSE, waiting |-> 0,
                   available |-> FALSE]

\* the pipeline notebook with an execution started, before the cell that
\* waits for it has run
IdleMonitor ==
    /\ mon_cell = "describe"
    /\ exec_status = "Executing"
    /\ exec_response = "None"
    /\ printed = NothingPrinted
    /\ stored_counts = <<>>
    /\ totals = <<>>
    /\ offline_store_contents = None
    /\ athena_runs = 0

\* the partition notebook before its first cell has run, with no orders
\* file and an empty partitions directory
IdlePartition ==
    /\ part_cell = "read"
    /\ orders_csv = NoFrame
    /\ part_df = NoFrame
    /\ grouped = {}
    /\ partitions = <<>>
    /\ part_runs = <<>>

IdleNotebooks ==
    IdleTrain /\ IdleFeatureGroups /\ IdlePipeline /\ IdleMonitor
       /\ IdlePartition

----------------------------------------------------------------------------
(* Generation cells *)

Init ==
    /\ SEED \in Seeds
    /\ N \in 1..MaxN
    /\ M \in 1..MaxM
    /\ pc = "seed"
    /\ run = 1
    /\ rnd = 0
    /\ fk = 0
    /\ now = 0
    /\ n = 0
    /\ i = 0
    /\ customer = <<>>
    /\ customers = <<>>
    /\ customer_ids = <<>>
    /\ customers_df = NoFrame
    /\ product_ids = <<>>
    /\ order = <<>>
    /\ orders = <<>>
    /\ orders_df = NoFrame
    /\ prev = <<>>
    /\ files = NoFiles
    /\ label_encoder = <<>>
    /\ min_max_scaler = <<>>
    /\ sk_df = NoFrame
    /\ spark_df = NoFrame
    /\ response = NoResponse
    /\ job_log = <<>>
    /\ job_error = "none"
    /\ colA = <<>>
    /\ colB = <<>>
    /\ encoder = "none"
    /\ mapA = <<>>
    /\ mapB = <<>>
    /\ scol = <<>>
    /\ scaler = "none"
    /\ scaled = <<>>
    /\ IdleNotebooks

\* random.seed(SEED); np.random.seed(SEED); faker.seed_instance(SEED)
SeedCell ==
    /\ pc = "seed"
    /\ rnd' = SeedState(SEED)
    /\ fk' = SeedState(SEED)
    /\ pc' = "demo_customer"
    /\ UNCHANGED <<SEED, N, M, run, now, n, i, customer, customers,
                   customer_ids, customers_df, product_ids, order, orders,
                   orders_df, prev>>
    /\ UNCHANGED <<trVars, fnVars>>

\* customer = generate_customer(1)
DemoCustomerCell ==
    /\ pc = "demo_customer"
    /\ \E t \in now..MaxClock :
         /\ now' = t
         /\ customer' = generate_customer(1, fk, rnd, t)
    /\ fk' = AdvanceBy(fk, CustomerFakerDraws)
    /\ rnd' = AdvanceBy(rnd, CustomerRandomDraws)
    /\ pc' = "customers_start"
    /\ UNCHANGED <<SEED, N, M, run, n, i, customers, customer_ids,
                   customers_df, product_ids, order, orders, orders_df, prev>>
    /\ UNCHANGED <<trVars, fnVars>>

\* customers = []; customer_ids = []; n = ...
CustomersStart ==
    /\ pc = "customers_start"
    /\ customers' = <<>>
    /\ customer_ids' = <<>>
    /\ n' = N
    /\ i' = 0
    /\ pc' = "customers_loop"
    /\ UNCHANGED <<SEED, N, M, run, rnd, fk, now, customer, customers_df,
                   product_ids, order, orders, orders_df, prev>>
    /\ UNCHANGED <<trVars, fnVars>>

\* one iteration of: for i in range(n)
CustomersLoop ==
    /\ pc = "customers_loop"
    /\ InRange(i, n)
    /\ \E t \in now..MaxClock :
         /\ now' = t
         /\ customer' = generate_customer(i + 1, fk, rnd, t)
    /\ customers' = Append(customers, customer')
    /\ customer_ids' = Append(customer_ids, customer'.customer_id)
    /\ fk' = AdvanceBy(fk, CustomerFakerDraws)
    /\ rnd' = AdvanceBy(rnd, CustomerRandomDraws)
    /\ i' = i + 1
    /\ UNCHANGED <<SEED, N, M, run, pc, n, customers_df, product_ids, order,
                   orders, orders_df, prev>>
    /\ UNCHANGED <<trVars, fnVars>>

\* customers_df = pd.DataFrame([customer.as_dict() for customer in customers])
CustomersFrame ==
    /\ pc = "customers_loop"
    /\ ~InRange(i, n)
    /\ customers_df' = DataFrame(CustomerColumns, customers)
    /\ pc' = "load_products"
    /\ UNCHANGED <<SEED, N, M, run, rnd, fk, now, n, i, customer, customers,
                   customer_ids, product_ids, order, orders, orders_df, prev>>
    /\ UNCHANGED <<trVars, fnVars>>

\* products_df = pd.read_csv(...); product_ids = products_df['product_id'].tolist()
LoadProducts ==
    /\ pc = "load_products"
    /\ product_ids' = [k \in 1..NumProducts |-> ProductTable[k].product_id]
    /\ pc' = "demo_order"
    /\ UNCHANGED <<SEED, N, M, run, rnd, fk, now, n, i, customer, customers,
                   customer_ids, customers_df, order, orders, orders_df, prev>>
    /\ UNCHANGED <<trVars, fnVars>>

\* order = generate_order(1)
DemoOrderCell ==
    /\ pc = "demo_order"
    /\ \E t \in now..MaxClock :
         /\ now' = t
         /\ order' = generate_order(1, fk, rnd, t)
    /\ fk' = AdvanceBy(fk, OrderFakerDraws)
    /\ rnd' = AdvanceBy(rnd, OrderRandomDraws)
    /\ pc' = "orders_start"
    /\ UNCHANGED <<SEED, N, M, run, n, i, customer, customers, customer_ids,
                   customers_df, product_ids, orders, orders_df, prev>>
    /\ UNCHANGED <<trVars, fnVars>>

\* orders = []; n = ...
OrdersStart ==
    /\ pc = "orders_start"
    /\ orders' = <<>>
    /\ n' = M
    /\ i' = 0
    /\ pc' = "orders_loop"
    /\ UNCHANGED <<SEED, N, M, run, rnd, fk, now, customer, customers,
                   customer_ids, customers_df, product_ids, order, orders_df,
                   prev>>
    /\ UNCHANGED <<trVars, fnVars>>

\* one iteration of: for i in range(n)
OrdersLoop ==
    /\ pc = "orders_loop"
    /\ InRange(i, n)
    /\ \E t \in now..MaxClock :
         /\ now' = t
         /\ order' = generate_order(i + 1, fk, rnd, t)
    /\ orders' = Append(orders, order')
    /\ fk' = AdvanceBy(fk, OrderFakerDraws)
    /\ rnd' = AdvanceBy(rnd, OrderRandomDraws)
    /\ i' = i + 1
    /\ UNCHANGED <<SEED, N, M, run, pc, n, customer, customers, customer_ids,
                   customers_df, product_ids, orders_df, prev>>
    /\ UNCHANGED <<trVars, fnVars>>

\* orders_df = pd.DataFrame([order.as_dict() for order in orders])
OrdersFrame ==
    /\ pc = "orders_loop"
    /\ ~InRange(i, n)
    /\ orders_df' = DataFrame(OrderColumns, orders)
    /\ pc' = "generated"
    /\ UNCHANGED <<SEED, N, M, run, rnd, fk, now, n, i, customer, customers,
                   customer_ids, customers_df, product_ids, order, orders,
                   prev>>
    /\ UNCHANGED <<trVars, fnVars>>

----------------------------------------------------------------------------
(* Data frame operations *)

Column(df, col) == [k \in 1..Len(df.rows) |-> df.rows[k][col]]

HasColumn(df, col) == \E c \in 1..Len(df.columns) : df.columns[c] = col

keep_column(df, col) == df

\* df.drop(col, axis=1)
Drop(df, col) ==
    [columns |-> SelectSeq(df.columns, LAMBDA c : c # col),
     rows    |-> [k \in 1..Len(df.rows) |->
                    [c \in DOMAIN df.rows[k] \ {col} |-> df.rows[k][c]]]]

\* df[col] = vals: replaces the column, or appends it as the last column
WithColumn(df, col, vals) ==
    [columns |-> IF HasColumn(df, col) THEN df.columns
                 ELSE Append(df.columns, col),
     rows    |-> [k \in 1..Len(df.rows) |->
                    [c \in DOMAIN df.rows[k] \cup {col} |->
                       IF c = col THEN vals[k] ELSE df.rows[k][c]]]]

\* pd.concat([a, b], axis=1)
Concat(a, b) ==
    [columns |-> a.columns \o b.columns,
     rows    |-> [k \in 1..Len(a.rows) |->
                    [c \in DOMAIN a.rows[k] \cup DOMAIN b.rows[k] |->
                       IF c \in DOMAIN b.rows[k] THEN b.rows[k][c]
                       ELSE a.rows[k][c]]]]

----------------------------------------------------------------------------
(* Age buckets: pd.cut(age, bins, labels=labels, include_lowest=True) with  *)
(* pandas' default right=True, then pd.get_dummies(..., prefix='age').      *)

bins == <<18, 30, 40, 50, 60, 70, 90>>
labels == <<"18-29", "30-39", "40-49", "50-59", "60-69", "70-plus">>

\* the bin b holds x when bins[b] < x <= bins[b+1]; include_lowest adds the
\* lowest edge to the first bin; a value in no bin is NaN
InBin(x, b) ==
    \/ bins[b] < x /\ x <= bins[b + 1]
    \/ b = 1 /\ x = bins[1]

cut(x) ==
    IF \E b \in 1..Len(labels) : InBin(x, b)
    THEN labels[CHOOSE b \in 1..Len(labels) : InBin(x, b)]
    ELSE "NaN"

DummyName(prefix, label) == prefix \o "_" \o label

\* one 0/1 column per category, in category order; a NaN row is 0 in all
get_dummies(col, prefix) ==
    [columns |-> [b \in 1..Len(labels) |-> DummyName(prefix, labels[b])],
     rows    |-> [k \in 1..Len(col) |->
                    [c \in {DummyName(prefix, labels[b]) : b \in 1..Len(labels)}
                       |-> IF c = DummyName(prefix, col[k]) THEN 1 ELSE 0]]]

----------------------------------------------------------------------------
(* sklearn LabelEncoder: classes_ is the sorted array of the distinct      *)
(* values, a value is encoded as its position in classes_.  Values are     *)
(* given by their sort keys (their rank in the order numpy sorts them).    *)

Range(seq) == {seq[k] : k \in 1..Len(seq)}

\* np.unique: 'F' < 'M', False < True, 0 < 1
SexKey(v) == IF v = "F" THEN 0 ELSE 1
BoolKey(v) == IF v THEN 1 ELSE 0

RECURSIVE SortedSeq(_)
SortedSeq(S) ==
    IF S = {} THEN <<>>
    ELSE LET m == CHOOSE x \in S : \A y \in S : x <= y
         IN <<m>> \o SortedSeq(S \ {m})

LabelEncoder_fit(keys) == SortedSeq(Range(keys))

LabelEncoder_transform(classes, keys) ==
    [k \in 1..Len(keys) |->
       (CHOOSE c \in 1..Len(classes) : classes[c] = keys[k]) - 1]

----------------------------------------------------------------------------
(* sklearn MinMaxScaler().fit_transform(column): X * scale_ + min_ with    *)
(* scale_ = 1 / handle_zeros(data_max_ - data_min_) and                    *)
(* min_ = -data_min_ * scale_.  A scaled value is the fraction num/den.    *)

SeqMin(col) == CHOOSE x \in Range(col) : \A y \in Range(col) : x <= y
SeqMax(col) == CHOOSE x \in Range(col) : \A y \in Range(col) : x >= y

\* variant: the data range is used as it is
keep_zeros_in_scale(range) == range

\* _handle_zeros_in_scale: a zero data range is replaced by 1
handle_zeros_in_scale(range) == IF range = 0 THEN 1 ELSE range

MinMaxScaler_fit(col) == [data_min |-> SeqMin(col), data_max |-> SeqMax(col)]

\* variant: divides by the column maximum instead of the data range
MinMaxScaler_transform_by_max(fit, col) ==
    [k \in 1..Len(col) |->
       [num |-> col[k] - fit.data_min, den |-> fit.data_max]]

MinMaxScaler_transform(fit, col) ==
    [k \in 1..Len(col) |->
       [num |-> col[k] - fit.data_min,
        den |-> handle_zeros_in_scale(fit.data_max - fit.data_min)]]

\* get_delta_in_days(date_time): (date.today() - date_time.date()).days
get_delta_in_days(today, day) == today - day

MaxDaysLate == 1

\* the day a transform cell or script runs on
Todays == {PurchasedOnEnd + d : d \in 0..MaxDaysLate}

----------------------------------------------------------------------------
(* Transform cells of the data preparation notebook *)

\* what the transform cells and the processing scripts leave alone
genState == <<SEED, N, M, run, rnd, fk, now, n, i, customer, customers,
              customer_ids, product_ids, order, orders, prev>>

\* customers_df.to_csv(...); orders_df.to_csv(...) under data/raw
WriteRaw ==
    /\ pc = "generated"
    /\ files' = [files EXCEPT !.raw_customers = customers_df,
                              !.raw_orders = orders_df]
    /\ pc' = "read_customers"
    /\ UNCHANGED <<genState, customers_df, orders_df, label_encoder,
                   min_max_scaler, sk_df, spark_df, jobVars, fnVars>>

\* customers_df = pd.read_csv('.././data/raw/customers.csv')
ReadCustomers ==
    /\ pc = "read_customers"
    /\ customers_df' = files.raw_customers
    /\ pc' = "drop_name_state"
    /\ UNCHANGED <<genState, orders_df, trVars, fnVars>>

\* customers_df.drop('name', ...); customers_df.drop('state', ...)
DropNameState ==
    /\ pc = "drop_name_state"
    /\ customers_df' = Drop(Drop(customers_df, "name"), "state")
    /\ pc' = "age_buckets"
    /\ UNCHANGED <<genState, orders_df, trVars, fnVars>>

\* age_range = pd.cut(...); concat with get_dummies; drop age and age_range
AgeBuckets ==
    /\ pc = "age_buckets"
    /\ LET age_range == [k \in 1..Len(customers_df.rows) |->
                           cut(customers_df.rows[k].age)]
           with_range == WithColumn(customers_df, "age_range", age_range)
           with_dummies == Concat(with_range, get_dummies(age_range, "age"))
       IN customers_df' = Drop(Drop(with_dummies, "age"), "age_range")
    /\ pc' = "encode_customers"
    /\ UNCHANGED <<genState, orders_df, trVars, fnVars>>

\* sex and is_married through label_encoder.fit_transform
EncodeCustomers ==
    /\ pc = "encode_customers"
    /\ LET sex_keys == [k \in 1..Len(customers_df.rows) |->
                          SexKey(customers_df.rows[k].sex)]
           married_keys == [k \in 1..Len(customers_df.rows) |->
                              BoolKey(customers_df.rows[k].is_married)]
           sex_classes == LabelEncoder_fit(sex_keys)
           married_classes == LabelEncoder_fit(married_keys)
       IN /\ customers_df' =
               WithColumn(
                 WithColumn(customers_df, "sex",
                            LabelEncoder_transform(sex_classes, sex_keys)),
                 "is_married",
                 LabelEncoder_transform(married_classes, married_keys))
          /\ label_encoder' = married_classes
    /\ pc' = "days_active"
    /\ UNCHANGED <<genState, orders_df, files, min_max_scaler, sk_df,
                   spark_df, jobVars, fnVars>>

\* n_days_active = days from active_since to today, min-max scaled;
\* active_since dropped
DaysActive ==
    /\ pc = "days_active"
    /\ \E today \in Todays :
         LET days == [k \in 1..Len(customers_df.rows) |->
                        get_delta_in_days(today,
                                          customers_df.rows[k].active_since)]
             fit == MinMaxScaler_fit(days)
         IN /\ min_max_scaler' = fit
            /\ customers_df' =
                 Drop(WithColumn(customers_df, "n_days_active",
                                 MinMaxScaler_transform(fit, days)),
                      "active_since")
    /\ pc' = "write_customers"
    /\ UNCHANGED <<genState, orders_df, files, label_encoder, sk_df,
                   spark_df, jobVars, fnVars>>

\* customers_df.to_csv('.././data/transformed/customers.csv', index=False)
WriteCustomers ==
    /\ pc = "write_customers"
    /\ files' = [files EXCEPT !.transformed_customers = customers_df]
    /\ pc' = "read_orders"
    /\ UNCHANGED <<genState, customers_df, orders_df, label_encoder,
                   min_max_scaler, sk_df, spark_df, jobVars, fnVars>>

\* orders_df = pd.read_csv('.././data/raw/orders.csv')
ReadOrders ==
    /\ pc = "read_orders"
    /\ orders_df' = files.raw_orders
    /\ pc' = "days_since_purchase"
    /\ UNCHANGED <<genState, customers_df, trVars, fnVars>>

\* n_days_since_last_purchase = days from purchased_on to today, min-max
\* scaled; purchased_on dropped
DaysSincePurchase ==
    /\ pc = "days_since_purchase"
    /\ \E today \in Todays :
         LET days == [k \in 1..Len(orders_df.rows) |->
                        get_delta_in_days(today,
                                          orders_df.rows[k].purchased_on)]
             fit == MinMaxScaler_fit(days)
         IN /\ min_max_scaler' = fit
            /\ orders_df' =
                 Drop(WithColumn(orders_df, "n_days_since_last_purchase",
                                 MinMaxScaler_transform(fit, days)),
                      "purchased_on")
    /\ pc' = "scale_encode_orders"
    /\ UNCHANGED <<genState, customers_df, files, label_encoder, sk_df,
                   spark_df, jobVars, fnVars>>

\* purchase_amount min-max scaled, is_reordered label encoded
ScaleEncodeOrders ==
    /\ pc = "scale_encode_orders"
    /\ LET amounts == Column(orders_df, "purchase_amount")
           fit == MinMaxScaler_fit(amounts)
           flags == Column(orders_df, "is_reordered")
           classes == LabelEncoder_fit(flags)
       IN /\ min_max_scaler' = fit
          /\ label_encoder' = classes
          /\ orders_df' =
               WithColumn(
                 WithColumn(orders_df, "purchase_amount",
                            MinMaxScaler_transform(fit, amounts)),
                 "is_reordered", LabelEncoder_transform(classes, flags))
    /\ pc' = "write_orders"
    /\ UNCHANGED <<genState, customers_df, files, sk_df, spark_df, jobVars,
                   fnVars>>

\* orders_df.to_csv('.././data/transformed/orders.csv', index=False)
WriteOrders ==
    /\ pc = "write_orders"
    /\ files' = [files EXCEPT !.transformed_orders = orders_df]
    /\ pc' = "scripts"
    /\ UNCHANGED <<genState, customers_df, orders_df, label_encoder,
                   min_max_scaler, sk_df, spark_df, jobVars, fnVars>>

----------------------------------------------------------------------------
(* sklearn processing script *)

\* df['is_reordered'].astype(int) on the 0/1 integers read from the CSV
astype_int(v) == v

apply_transforms(df, today) ==
    LET flags == [k \in 1..Len(df.rows) |-> astype_int(df.rows[k].is_reordered)]
        days == [k \in 1..Len(df.rows) |->
                   get_delta_in_days(today, df.rows[k].purchased_on)]
        fit == MinMaxScaler_fit(days)
    IN Drop(WithColumn(WithColumn(df, "is_reordered", flags),
                       "n_days_since_last_purchase",
                       MinMaxScaler_transform(fit, days)),
            "purchased_on")

\* fg.ingest(data_frame=df, ..., wait=True): the IngestionManagerPandas it
\* returns; failed_rows holds the zero based indices of the rows in failed
ingest(df, failed) == [failed_rows |-> failed]

\* the sets of rows of df the feature store can fail to take
FailedRows(df) == SUBSET (0..(Len(df.rows) - 1))

assert_skipped(resp) == TRUE

\* assert len(response.failed_rows) == 0
assert_no_failed_rows(resp) == Cardinality(resp.failed_rows) = 0

\* __main__: STARTED is logged, ingest_data reads and concatenates the
\* partition files (the rows of the raw orders file), transforms them, ingests
\* them and asserts that no row failed, then COMPLETED is logged
SklearnScript ==
    /\ pc = "scripts"
    /\ \E today \in Todays :
         LET df == apply_transforms(files.raw_orders, today)
         IN /\ sk_df' = df
            /\ \E failed \in FailedRows(df) : response' = ingest(df, failed)
    /\ IF assert_no_failed_rows(response')
          THEN /\ job_log' = <<"BATCH INGESTION - STARTED",
                                "BATCH INGESTION - COMPLETED">>
               /\ job_error' = "none"
          ELSE /\ job_log' = <<"BATCH INGESTION - STARTED">>
               /\ job_error' = "AssertionError"
    /\ pc' = "sklearn_done"
    /\ UNCHANGED <<genState, customers_df, orders_df, files, label_encoder,
                   min_max_scaler, spark_df, fnVars>>

----------------------------------------------------------------------------
(* PySpark processing script *)

\* spark.read.options(Header=True).csv(...): every column is read as a string
csv_string(v) == ToString(v)

Count(col, v) == Cardinality({k \in 1..Len(col) : col[k] = v})

\* StringIndexer.fit with the default stringOrderType frequencyDesc: the
\* labels ordered by descending frequency, the most frequent label first;
\* Spark 2.4 leaves the order of equally frequent labels open
StringIndexer_fit(col) ==
    LET S == Range(col)
    IN {ls \in [1..Cardinality(S) -> S] :
          /\ \A a, b \in 1..Cardinality(S) : a # b => ls[a] # ls[b]
          /\ \A a, b \in 1..Cardinality(S) :
                a < b => Count(col, ls[a]) >= Count(col, ls[b])}

\* StringIndexerModel.transform: the index of the label, from 0
StringIndexer_transform(ls, col) ==
    [k \in 1..Len(col) |-> (CHOOSE a \in 1..Len(ls) : ls[a] = col[k]) - 1]

\* pyspark.ml.feature.MinMaxScaler: (x - min) / (max - min), and 0.5 when
\* max = min
spark_min_max(col) ==
    LET lo == SeqMin(col)
        hi == SeqMax(col)
    IN [k \in 1..Len(col) |->
          IF hi = lo THEN [num |-> 1, den |-> 2]
          ELSE [num |-> col[k] - lo, den |-> hi - lo]]

\* round(float(x), 2) in hundredths: the nearest hundredth; at an exact
\* decimal tie the binary value of x decides, so both neighbours are kept
round2(fr) ==
    LET q == (100 * fr.num) \div fr.den
        r == (100 * fr.num) % fr.den
    IN IF 2 * r < fr.den THEN {q}
       ELSE IF 2 * r > fr.den THEN {q + 1}
       ELSE {q, q + 1}

\* the sequences that take their k-th element from the k-th set
RECURSIVE Choices(_)
Choices(sets) ==
    IF sets = <<>> THEN {<<>>}
    ELSE {<<x>> \o rest : x \in Head(sets), rest \in Choices(Tail(sets))}

\* scale_col: the columns a MinMaxScaler pipeline and the unlist udf can give
scale_col(col) ==
    LET fractions == spark_min_max(col)
    IN Choices([k \in 1..Len(col) |-> round2(fractions[k])])

\* ordinal_encode_col followed by the cast to IntegerType
ordinal_encode_col(col) ==
    {StringIndexer_transform(ls, col) : ls \in StringIndexer_fit(col)}

\* run_spark_job up to the frame handed to foreachPartition
PySparkScript ==
    /\ pc = "scripts"
    /\ LET df == files.raw_orders
           flags == [k \in 1..Len(df.rows) |->
                       csv_string(df.rows[k].is_reordered)]
           amounts == Column(df, "purchase_amount")
       IN \E today \in Todays :
          \E encoded \in ordinal_encode_col(flags) :
          \E amount_scaled \in scale_col(amounts) :
          \E days_scaled \in
               scale_col([k \in 1..Len(df.rows) |->
                            get_delta_in_days(today, df.rows[k].purchased_on)]) :
             spark_df' =
               WithColumn(
                 Drop(WithColumn(
                        Drop(WithColumn(Drop(df, "is_reordered"),
                                        "is_reordered", encoded),
                             "purchase_amount"),
                        "purchase_amount", amount_scaled),
                      "purchased_on"),
                 "n_days_since_last_purchase", days_scaled)
    /\ pc' = "pyspark_done"
    /\ UNCHANGED <<genState, customers_df, orders_df, files, label_encoder,
                   min_max_scaler, sk_df, jobVars, fnVars>>

----------------------------------------------------------------------------
(* The two encoders on their own: each is fitted on two columns *)

MaxEncLen == 3      \* rows of an encoded column 1..MaxEncLen
MaxCategory == 1    \* categories 0..MaxCategory

EncColumns ==
    UNION {[1..len -> 0..MaxCategory] : len \in 1..MaxEncLen}

\* value -> integer mapping of label_encoder.fit_transform(col)
LabelEncoderMap(col) ==
    LET classes == LabelEncoder_fit(col)
    IN [v \in Range(col) |->
          (CHOOSE c \in 1..Len(classes) : classes[c] = v) - 1]

\* value -> integer mappings ordinal_encode_col can give for col
OrdinalEncodeMaps(col) ==
    LET strings == [k \in 1..Len(col) |-> csv_string(col[k])]
    IN {[v \in Range(col) |->
           (CHOOSE a \in 1..Len(ls) : ls[a] = csv_string(v)) - 1] :
        ls \in StringIndexer_fit(strings)}

NotebookEncoder ==
    /\ encoder = "none"
    /\ colA # <<>>
    /\ mapA' = LabelEncoderMap(colA)
    /\ mapB' = LabelEncoderMap(colB)
    /\ encoder' = "LabelEncoder"
    /\ UNCHANGED <<colA, colB, genVars, trVars, scaleVars, notebookVars>>

PySparkEncoder ==
    /\ encoder = "none"
    /\ colA # <<>>
    /\ mapA' \in OrdinalEncodeMaps(colA)
    /\ mapB' \in OrdinalEncodeMaps(colB)
    /\ encoder' = "StringIndexer"
    /\ UNCHANGED <<colA, colB, genVars, trVars, scaleVars, notebookVars>>

----------------------------------------------------------------------------
(* The two scalers on their own: each scales one column *)

MaxScaleLen == 3    \* rows of a scaled column 1..MaxScaleLen
MaxValue == 3       \* values 0..MaxValue

ScaleColumns ==
    UNION {[1..len -> 0..MaxValue] : len \in 1..MaxScaleLen}

\* min_max_scaler.fit_transform(df[[col]])
NotebookScaler ==
    /\ scaler = "none"
    /\ scol # <<>>
    /\ scaled' = MinMaxScaler_transform(MinMaxScaler_fit(scol), scol)
    /\ scaler' = "sklearn"
    /\ UNCHANGED <<scol, genVars, trVars, encVars, notebookVars>>

\* scale_col(df, col)
PySparkScaler ==
    /\ scaler = "none"
    /\ scol # <<>>
    /\ scaled' \in scale_col(scol)
    /\ scaler' = "pyspark"
    /\ UNCHANGED <<scol, genVars, trVars, encVars, notebookVars>>

\* the generation cells are run again from the seed cell; the lists of the
\* first run are remembered for comparison
Rerun ==
    /\ pc = "generated"
    /\ run = 1
    /\ prev' = [customers |-> customers, orders |-> orders]
    /\ run' = 2
    /\ pc' = "seed"
    /\ UNCHANGED <<SEED, N, M, rnd, fk, now, n, i, customer, customers,
                   customer_ids, customers_df, product_ids, order, orders,
                   orders_df>>
    /\ UNCHANGED <<trVars, fnVars>>

NextGenerate ==
    \/ SeedCell
    \/ DemoCustomerCell
    \/ CustomersStart
    \/ CustomersLoop
    \/ CustomersFrame
    \/ LoadProducts
    \/ DemoOrderCell
    \/ OrdersStart
    \/ OrdersLoop
    \/ OrdersFrame

\* the data preparation notebook run once, then either processing script on
\* the raw orders it wrote (the two scripts are separate processing jobs)
Next ==
    \/ NextGenerate
    \/ WriteRaw
    \/ ReadCustomers
    \/ DropNameState
    \/ AgeBuckets
    \/ EncodeCustomers
    \/ DaysActive
    \/ WriteCustomers
    \/ ReadOrders
    \/ DaysSincePurchase
    \/ ScaleEncodeOrders
    \/ WriteOrders
    \/ SklearnScript
    \/ PySparkScript

Spec == Init /\ [][Next]_vars

\* the generation cells run twice from the seed cell
NextRerun ==
    \/ NextGenerate
    \/ Rerun

SpecRerun == Init /\ [][NextRerun]_vars

\* the notebook and the scripts before anything has run
Idle ==
    /\ SEED = 0
    /\ N = 1
    /\ M = 1
    /\ pc = "seed"
    /\ run = 1
    /\ rnd = 0
    /\ fk = 0
    /\ now = 0
    /\ n = 0
    /\ i = 0
    /\ customer = <<>>
    /\ customers = <<>>
    /\ customer_ids = <<>>
    /\ customers_df = NoFrame
    /\ product_ids = <<>>
    /\ order = <<>>
    /\ orders = <<>>
    /\ orders_df = NoFrame
    /\ prev = <<>>
    /\ files = NoFiles
    /\ label_encoder = <<>>
    /\ min_max_scaler = <<>>
    /\ sk_df = NoFrame
    /\ spark_df = NoFrame
    /\ response = NoResponse
    /\ job_log = <<>>
    /\ job_error = "none"

\* no column has been given to an encoder or a scaler
IdleColumns ==
    /\ colA = <<>>
    /\ colB = <<>>
    /\ encoder = "none"
    /\ mapA = <<>>
    /\ mapB = <<>>
    /\ scol = <<>>
    /\ scaler = "none"
    /\ scaled = <<>>

\* an encoder fitted on two columns
InitEncode ==
    /\ colA \in EncColumns
    /\ colB \in EncColumns
    /\ encoder = "none"
    /\ mapA = <<>>
    /\ mapB = <<>>
    /\ scol = <<>>
    /\ scaler = "none"
    /\ scaled = <<>>
    /\ Idle
    /\ IdleNotebooks

NextEncode ==
    \/ NotebookEncoder
    \/ PySparkEncoder

SpecEncode == InitEncode /\ [][NextEncode]_vars

\* a scaler applied to one column
InitScale ==
    /\ scol \in ScaleColumns
    /\ scaler = "none"
    /\ scaled = <<>>
    /\ colA = <<>>
    /\ colB = <<>>
    /\ encoder = "none"
    /\ mapA = <<>>
    /\ mapB = <<>>
    /\ Idle
    /\ IdleNotebooks

NextScale ==
    \/ NotebookScaler
    \/ PySparkScaler

SpecScale == InitScale /\ [][NextScale]_vars

----------------------------------------------------------------------------
(* Model training notebook: the transformed feature set is loaded, the     *)
(* target column is moved to the front, the rows are shuffled and split,   *)
(* the parts are saved, and a record of the test part becomes the payload  *)
(* of an inference request.  A frame here also carries its index labels.   *)

MaxRows == 90       \* rows of transformed.csv 1..MaxRows
MaxFeatures == 2    \* feature columns of transformed.csv 1..MaxFeatures
MaxPermuted == 4    \* frames up to this length are shuffled into any order

\* the feature columns of a transformed feature set with k features
FeatureNames(k) == [j \in 1..k |-> "feature_" \o ToString(j)]

\* the sequence with x put at position p (from 1)
InsertAt(seq, p, x) ==
    SubSeq(seq, 1, p - 1) \o <<x>> \o SubSeq(seq, p, Len(seq))

\* a transformed.csv of len rows and k feature columns with the target at
\* column position p; the value of row r in column c is written <<c, r>>
TransformedFile(len, k, p) ==
    LET cols == InsertAt(FeatureNames(k), p, "is_reordered")
    IN [columns |-> cols,
        rows    |-> [r \in 1..len |-> [c \in Range(cols) |-> <<c, r>>]]]

TransformedFiles ==
    UNION {{TransformedFile(len, k, p) : len \in 1..MaxRows, p \in 1..(k + 1)} :
             k \in 1..MaxFeatures}

NoDataFiles == [transformed |-> NoFrame, train |-> NoFrame,
                validation |-> NoFrame, test |-> NoFrame]

\* pd.read_csv(path): the rows of the file under a fresh index 0, 1, ...
read_csv(file) ==
    [columns |-> file.columns,
     rows    |-> file.rows,
     index   |-> [r \in 1..Len(file.rows) |-> r - 1]]

\* frame.to_csv(path, index=False): the index labels are not written
to_csv(frame) == [columns |-> frame.columns, rows |-> frame.rows]

\* df.pop(col): the frame left behind (the popped series is Column(df, col))
pop(frame, col) ==
    [columns |-> SelectSeq(frame.columns, LAMBDA c : c # col),
     rows    |-> [r \in 1..Len(frame.rows) |->
                    [c \in DOMAIN frame.rows[r] \ {col} |-> frame.rows[r][c]]],
     index   |-> frame.index]

insert_last(frame, loc, col, value) ==
    [columns |-> Append(frame.columns, col),
     rows    |-> [r \in 1..Len(frame.rows) |->
                    [c \in DOMAIN frame.rows[r] \cup {col} |->
                       IF c = col THEN value[r] ELSE frame.rows[r][c]]],
     index   |-> frame.index]

\* df.insert(loc, col, value): the column col with the values value put at
\* column position loc (from 0)
insert(frame, loc, col, value) ==
    [columns |-> InsertAt(frame.columns, loc + 1, col),
     rows    |-> [r \in 1..Len(frame.rows) |->
                    [c \in DOMAIN frame.rows[r] \cup {col} |->
                       IF c = col THEN value[r] ELSE frame.rows[r][c]]],
     index   |-> frame.index]

\* the orders of len rows
Orders(len) ==
    {f \in [1..len -> 1..len] : \A a, b \in 1..len : a # b => f[a] # f[b]}

Rotation(len, s) == [k \in 1..len |-> ((k - 1 + s) % len) + 1]

\* the orders df.sample(frac=1, random_state=123) is taken to give a frame
\* of len rows: any order for a short frame, and for a longer one the
\* orders that move the first 1..MaxPermuted rows to the end
Shuffles(len) ==
    IF len <= MaxPermuted THEN Orders(len)
    ELSE {Rotation(len, s) : s \in 1..MaxPermuted}

\* frame.sample(frac=1): all rows, in the order perm, under their labels
sample(frame, perm) ==
    [columns |-> frame.columns,
     rows    |-> [k \in 1..Len(frame.rows) |-> frame.rows[perm[k]]],
     index   |-> [k \in 1..Len(frame.rows) |-> frame.index[perm[k]]]]

\* the largest power of two below k (k >= 2)
RECURSIVE PowerOfTwoBelow(_)
PowerOfTwoBelow(k) == IF k <= 2 THEN 1 ELSE 2 * PowerOfTwoBelow((k + 1) \div 2)

\* int(.7 * len) in IEEE double arithmetic.  The double .7 is
\* 0.7 - 0.4 * 2^-53, so .7 * len is below 7 * len / 10 by 0.4 * len * 2^-53
\* before rounding.  If 10 does not divide len the product is more than 0.09
\* above the integer below it and truncates to that integer.  If len = 10 * j
\* the exact product is 7 * j - 4 * j * 2^-53; the doubles just below 7 * j
\* are 2^e * 2^-52 apart, with 2^e the largest power of two below 7 * j, and
\* the product rounds to 7 * j unless it is more than half of that below.
int_7_tenths(len) ==
    IF len % 10 # 0 THEN (7 * len) \div 10
    ELSE LET j == len \div 10
         IN IF j = 0 THEN 0
            ELSE IF 4 * j > PowerOfTwoBelow(7 * j) THEN 7 * j - 1
            ELSE 7 * j

\* int(.9 * len): the double .9 is above 0.9, and the product truncates to
\* the integer part of 9 * len / 10
int_9_tenths(len) == (9 * len) \div 10

\* frame[lo:hi] by position (from 0, hi excluded)
iloc(frame, lo, hi) ==
    [columns |-> frame.columns,
     rows    |-> SubSeq(frame.rows, lo + 1, hi),
     index   |-> SubSeq(frame.index, lo + 1, hi)]

\* np.split(frame, [a, b]): frame[:a], frame[a:b], frame[b:]
np_split(frame, cuts) ==
    <<iloc(frame, 0, cuts[1]), iloc(frame, cuts[1], cuts[2]),
      iloc(frame, cuts[2], Len(frame.rows))>>

\* frame.values[r]: the values of row r in column order
values(frame, r) ==
    [k \in 1..Len(frame.columns) |-> frame.rows[r][frame.columns[k]]]

\* what the training notebook leaves alone
trainRest == <<prepVars, fgVars, pipeVars, monVars, partVars>>

\* df = pd.read_csv('.././data/train/transformed.csv')
LoadTransformed ==
    /\ cell = "load"
    /\ full_df' = read_csv(data_files.transformed)
    /\ cell' = "move_target"
    /\ UNCHANGED <<data_files, shuffled, train_df, validation_df, test_df,
                   record, payload, trainRest>>

\* first_column = df.pop('is_reordered'); df.insert(0, 'is_reordered', ...)
MoveTarget ==
    /\ cell = "move_target"
    /\ LET first_column == Column(full_df, "is_reordered")
       IN full_df' = insert(pop(full_df, "is_reordered"), 0, "is_reordered",
                            first_column)
    /\ cell' = "split"
    /\ UNCHANGED <<data_files, shuffled, train_df, validation_df, test_df,
                   record, payload, trainRest>>

\* train_df, validation_df, test_df = np.split(df.sample(frac=1, ...),
\*                                    [int(.7*len(df)), int(.9*len(df))])
SplitData ==
    /\ cell = "split"
    /\ \E perm \in Shuffles(Len(full_df.rows)) :
          shuffled' = sample(full_df, perm)
    /\ LET parts == np_split(shuffled', <<int_7_tenths(Len(full_df.rows)),
                                          int_9_tenths(Len(full_df.rows))>>)
       IN /\ train_df' = parts[1]
          /\ validation_df' = parts[2]
          /\ test_df' = parts[3]
    /\ cell' = "save"
    /\ UNCHANGED <<data_files, full_df, record, payload, trainRest>>

\* train_df.to_csv(...); validation_df.to_csv(...); test_df.to_csv(...)
SaveSplits ==
    /\ cell = "save"
    /\ data_files' = [data_files EXCEPT !.train = to_csv(train_df),
                                        !.validation = to_csv(validation_df),
                                        !.test = to_csv(test_df)]
    /\ cell' = "sample_record"
    /\ UNCHANGED <<full_df, shuffled, train_df, validation_df, test_df,
                   record, payload, trainRest>>

\* test_df = pd.read_csv('.././data/test/test.csv'); record = test_df.sample(1)
SampleRecord ==
    /\ cell = "sample_record"
    /\ test_df' = read_csv(data_files.test)
    /\ \E r \in 1..Len(test_df'.rows) : record' = iloc(test_df', r - 1, r)
    /\ cell' = "payload"
    /\ UNCHANGED <<data_files, full_df, shuffled, train_df, validation_df,
                   payload, trainRest>>

\* X = record.values[0]; payload = X[1:]
BuildPayload ==
    /\ cell = "payload"
    /\ LET X == values(record, 1)
       IN payload' = SubSeq(X, 2, Len(X))
    /\ cell' = "predict"
    /\ UNCHANGED <<data_files, full_df, shuffled, train_df, validation_df,
                   test_df, record, trainRest>>

\* the transformed feature set is on disk, no cell has run
InitTrain ==
    /\ cell = "load"
    /\ data_files \in {[NoDataFiles EXCEPT !.transformed = file] :
                         file \in TransformedFiles}
    /\ full_df = <<>>
    /\ shuffled = <<>>
    /\ train_df = <<>>
    /\ validation_df = <<>>
    /\ test_df = <<>>
    /\ record = <<>>
    /\ payload = <<>>
    /\ Idle
    /\ IdleColumns
    /\ IdleFeatureGroups
    /\ IdlePipeline
    /\ IdleMonitor
    /\ IdlePartition

NextTrain ==
    \/ LoadTransformed
    \/ MoveTarget
    \/ SplitData
    \/ SaveSplits
    \/ SampleRecord
    \/ BuildPayload

SpecTrain == InitTrain /\ [][NextTrain]_vars

----------------------------------------------------------------------------
(* Feature store notebook: each of the three feature groups is created and *)
(* the notebook waits for its creation to complete.  The platform moves a   *)
(* feature group from Creating to Created or CreateFailed in its own time.  *)

MaxWaits == 2       \* 'Waiting ...' lines counted per group, 0..MaxWaits

\* what the feature store notebook leaves alone
fgRest == <<prepVars, trainVars, pipeVars, monVars, partVars>>

\* feature_group.describe().get('FeatureGroupStatus')
describe(g) == fg_status[g]

never_creating(s) == FALSE

\* while status == 'Creating'
creating(s) == s = "Creating"

always_created(s) == TRUE

\* the test of `if status != 'Created'`
created(s) == s = "Created"

\* the platform finishes the creation of a feature group, or fails it
PlatformCreates ==
    /\ \E g \in 1..Len(FeatureGroups) :
          /\ fg_status[g] = "Creating"
          /\ \E s \in {"Created", "CreateFailed"} :
                fg_status' = [fg_status EXCEPT ![g] = s]
    /\ UNCHANGED <<fg_cell, fg_k, status, waits, logged, ingested,
                   fgRest>>

\* <group>_feature_group.create(...)
CreateFeatureGroup ==
    /\ fg_cell = "create"
    /\ fg_status' = [fg_status EXCEPT ![fg_k] = "Creating"]
    /\ fg_cell' = "describe"
    /\ UNCHANGED <<fg_k, status, waits, logged, ingested,
                   fgRest>>

\* wait_for_feature_group_creation_complete: the first describe
WaitDescribe ==
    /\ fg_cell = "describe"
    /\ status' = [status EXCEPT ![fg_k] = describe(fg_k)]
    /\ fg_cell' = "while"
    /\ UNCHANGED <<fg_status, fg_k, waits, logged, ingested,
                   fgRest>>

\* one turn of the loop: the line is logged, time.sleep(5), describe again
WaitLoop ==
    /\ fg_cell = "while"
    /\ creating(status[fg_k])
    /\ waits' = [waits EXCEPT ![fg_k] = IF @ < MaxWaits THEN @ + 1 ELSE @]
    /\ status' = [status EXCEPT ![fg_k] = describe(fg_k)]
    /\ UNCHANGED <<fg_status, fg_cell, fg_k, logged, ingested,
                   fgRest>>

\* the loop is left with a status other than 'Created': SystemExit
WaitRaises ==
    /\ fg_cell = "while"
    /\ ~creating(status[fg_k])
    /\ ~created(status[fg_k])
    /\ fg_cell' = "SystemExit"
    /\ UNCHANGED <<fg_status, fg_k, status, waits, logged, ingested,
                   fgRest>>

\* the loop is left with the status 'Created': success is logged and the
\* call returns; the notebook goes on to the next create cell
WaitReturns ==
    /\ fg_cell = "while"
    /\ ~creating(status[fg_k])
    /\ created(status[fg_k])
    /\ logged' = logged \cup {fg_k}
    /\ IF fg_k < Len(FeatureGroups)
          THEN fg_k' = fg_k + 1 /\ fg_cell' = "create"
          ELSE fg_k' = fg_k /\ fg_cell' = "ingest"
    /\ UNCHANGED <<fg_status, status, waits, ingested, fgRest>>

\* the ingest cells follow the three create and wait cells, customers first:
\* <group>_feature_group.ingest(data_frame=<group>_df, max_processes=16,
\* wait=True); after the third the notebook goes on to read records back
Ingest ==
    /\ fg_cell = "ingest"
    /\ LET g == Cardinality(ingested) + 1
       IN /\ ingested' = ingested \cup {g}
          /\ fg_cell' = IF g < Len(FeatureGroups) THEN "ingest"
                        ELSE "get_record"
    /\ UNCHANGED <<fg_status, fg_k, status, waits, logged, fgRest>>

InitFeatureGroups ==
    /\ IdleFeatureGroups
    /\ IdleTrain
    /\ IdlePipeline
    /\ IdleMonitor
    /\ IdlePartition
    /\ Idle
    /\ IdleColumns

\* the cells of the notebook
NextNotebook ==
    \/ CreateFeatureGroup
    \/ WaitDescribe
    \/ WaitLoop
    \/ WaitRaises
    \/ WaitReturns
    \/ Ingest

NextFeatureGroups ==
    \/ NextNotebook
    \/ PlatformCreates

SpecFeatureGroups == InitFeatureGroups /\ [][NextFeatureGroups]_vars

\* the notebook kernel keeps running the cell it is in; the platform is
\* under no obligation to ever finish a creation
SpecFeatureGroupsFair ==
    /\ InitFeatureGroups
    /\ [][NextFeatureGroups]_vars
    /\ WF_vars(NextNotebook)

----------------------------------------------------------------------------
(* Pipeline notebook: an S3 trigger is attached to the Lambda function and  *)
(* a data file is uploaded to the data landing zone.  The helper module     *)
(* pipeline_utils (create_s3_trigger, create_lambda_fcn) is modelled from   *)
(* what the notebook says of it: the Lambda function is triggered whenever  *)
(* new data is uploaded under the landing zone prefix, writes a flow file   *)
(* that references the new dataset and starts the pipeline with it.         *)

MaxUploads == 2     \* data files 1..MaxUploads

\* s3_data_landing_zone_prefix and s3_feature_store_data_files_prefix
Prefixes == {"data_landing_zone", "data"}

Keys == Prefixes \X (1..MaxUploads)

\* the partition file the notebook uploads
PartitionKey == <<"data_landing_zone", 1>>

\* DWF-Orders.flow, the flow file the Lambda function was created with
BaseFlow == [uri |-> "DWF-Orders.flow", dataset |-> <<"data", 0>>]

\* what the pipeline notebook leaves alone
pipeRest == <<prepVars, trainVars, fgVars, monVars, partVars>>

\* the filter of the S3 trigger: objects under the landing zone prefix
under_landing_zone(key) == key[1] = "data_landing_zone"

any_prefix(key) == TRUE

\* S3 puts the object; with the trigger attached an object under the
\* landing zone prefix raises an object-created event
put_object(key) ==
    /\ uploaded' = uploaded \cup {key}
    /\ events' = IF trigger /\ under_landing_zone(key)
                   THEN events \cup {key} ELSE events

keep_flow(flow, key) == flow

\* the Lambda function's new flow file: the flow with its dataset replaced
\* by the uploaded object
update_flow(flow, key) == [uri |-> <<"flow", key>>, dataset |-> key]

\* pipeline_utils.create_s3_trigger(fcn_name, bucket, prefix, ...)
CreateTrigger ==
    /\ pl_cell = "create_trigger"
    /\ trigger' = TRUE
    /\ pl_cell' = "upload"
    /\ UNCHANGED <<uploaded, events, invoked, flow_files, executions,
                   pipeRest>>

\* S3Uploader.upload("../data/partitions/2021-5/partition.csv", landing zone)
UploadPartition ==
    /\ pl_cell = "upload"
    /\ put_object(PartitionKey)
    /\ pl_cell' = "check"
    /\ UNCHANGED <<trigger, invoked, flow_files, executions, pipeRest>>

\* a new data file is uploaded to the bucket by anyone, at any time
Upload(key) ==
    /\ key \notin uploaded
    /\ put_object(key)
    /\ UNCHANGED <<pl_cell, trigger, invoked, flow_files, executions,
                   pipeRest>>

\* S3 hands an event to the Lambda function, which writes the new flow file
\* and starts an execution of the pipeline with it as InputFlow
LambdaInvoke(key) ==
    /\ key \in events
    /\ events' = events \ {key}
    /\ invoked' = invoked \cup {key}
    /\ LET flow == update_flow(BaseFlow, key)
       IN /\ flow_files' = flow_files \cup {flow}
          /\ executions' = executions \cup {[InputFlow |-> flow.uri]}
    /\ UNCHANGED <<pl_cell, trigger, uploaded, pipeRest>>

InitPipeline ==
    /\ IdlePipeline
    /\ IdleTrain
    /\ IdleFeatureGroups
    /\ IdleMonitor
    /\ IdlePartition
    /\ Idle
    /\ IdleColumns

NextPipeline ==
    \/ CreateTrigger
    \/ UploadPartition
    \/ \E key \in Keys : Upload(key)
    \/ \E key \in Keys : LambdaInvoke(key)

\* S3 delivers every event it raised and the Lambda service runs the
\* function for it
SpecPipeline ==
    /\ InitPipeline
    /\ [][NextPipeline]_vars
    /\ \A key \in Keys : WF_vars(LambdaInvoke(key))

----------------------------------------------------------------------------
(* Pipeline notebook, monitoring cells: the notebook waits for the latest   *)
(* pipeline execution to leave the status Executing, and later waits for    *)
(* the offline store to hold the stored record counts before it runs the    *)
(* Athena join query.  The platform moves the execution through its         *)
(* statuses in its own time; Utils.get_historical_record_count is a call    *)
(* to the platform that answers with some record count.                     *)

MaxPolls == 5       \* lines printed by a wait loop are counted 0..MaxPolls
MaxCount == 2       \* record counts 0..MaxCount

\* what the monitoring cells leave alone
monRest == <<prepVars, trainVars, fgVars, pipeVars, partVars>>

\* the groups in the order customers, products, orders
Groups == 1..Len(FeatureGroups)

\* customers_count, products_count, orders_count as stored by the feature
\* store notebook: the numbers of rows of the three frames
StoredCounts == [Groups -> 1..MaxCount]

\* the answers of Utils.get_historical_record_count for the three groups
RecordCounts == [Groups -> 0..MaxCount]

\* sm_client.describe_pipeline_execution(...)['PipelineExecutionStatus']
describe_pipeline_execution == exec_status

executing_or_stopping(s) == s \in {"Executing", "Stopping"}

\* response['PipelineExecutionStatus'] == 'Executing'
executing(s) == s = "Executing"

orders_available(t, c) == t[3] >= c[3]

\* customers_total_record_count >= customers_count and
\* products_total_record_count >= products_count and
\* orders_total_record_count >= orders_count
available(t, c) == t[1] >= c[1] /\ t[2] >= c[2] /\ t[3] >= c[3]

\* one more line of a kind that is printed on every turn of a loop
OneMore(k) == IF k < MaxPolls THEN k + 1 ELSE k

\* the platform runs the execution: it succeeds, fails or is stopped
PlatformExecutes ==
    /\ \/ /\ exec_status = "Executing"
          /\ exec_status' \in {"Succeeded", "Failed", "Stopping"}
       \/ /\ exec_status = "Stopping"
          /\ exec_status' \in {"Stopped", "Failed"}
    /\ UNCHANGED <<mon_cell, exec_response, printed, stored_counts, totals,
                   offline_store_contents, athena_runs, monRest>>

\* response = sm_client.describe_pipeline_execution(...); the status is
\* printed
DescribeExecution ==
    /\ mon_cell = "describe"
    /\ exec_response' = describe_pipeline_execution
    /\ mon_cell' = "while"
    /\ UNCHANGED <<exec_status, printed, stored_counts, totals,
                   offline_store_contents, athena_runs, monRest>>

\* one turn of the loop: 'Pipeline is still in Executing status...',
\* time.sleep(60), describe again
ExecutionLoop ==
    /\ mon_cell = "while"
    /\ executing(exec_response)
    /\ printed' = [printed EXCEPT !.still = OneMore(@)]
    /\ exec_response' = describe_pipeline_execution
    /\ UNCHANGED <<mon_cell, exec_status, stored_counts, totals,
                   offline_store_contents, athena_runs, monRest>>

\* the loop is left: print('Pipeline is done Executing')
ExecutionDone ==
    /\ mon_cell = "while"
    /\ ~executing(exec_response)
    /\ printed' = [printed EXCEPT !.done = TRUE]
    /\ mon_cell' = "restore"
    /\ UNCHANGED <<exec_status, exec_response, stored_counts, totals,
                   offline_store_contents, athena_runs, monRest>>

\* %store -r customers_count, products_count, orders_count
RestoreCounts ==
    /\ mon_cell = "restore"
    /\ stored_counts' \in StoredCounts
    /\ mon_cell' = "offline_init"
    /\ UNCHANGED <<exec_status, exec_response, printed, totals,
                   offline_store_contents, athena_runs, monRest>>

\* offline_store_contents = None
StartOfflineWait ==
    /\ mon_cell = "offline_init"
    /\ offline_store_contents' = None
    /\ mon_cell' = "offline_while"
    /\ UNCHANGED <<exec_status, exec_response, printed, stored_counts,
                   totals, athena_runs, monRest>>

\* one turn of `while offline_store_contents is None`: the three counts are
\* read; with all of them reached the success line is logged and the loop
\* variable is set, else the waiting line is logged and time.sleep(60)
PollOfflineStore ==
    /\ mon_cell = "offline_while"
    /\ offline_store_contents = None
    /\ totals' \in RecordCounts
    /\ IF available(totals', stored_counts)
          THEN /\ printed' = [printed EXCEPT !.available = TRUE]
               /\ offline_store_contents' = <<totals'[3]>>
          ELSE /\ printed' = [printed EXCEPT !.waiting = OneMore(@)]
               /\ offline_store_contents' = offline_store_contents
    /\ UNCHANGED <<mon_cell, exec_status, exec_response, stored_counts,
                   athena_runs, monRest>>

\* the loop test finds offline_store_contents set: the cell ends
LeaveOfflineWait ==
    /\ mon_cell = "offline_while"
    /\ offline_store_contents # None
    /\ mon_cell' = "run_query"
    /\ UNCHANGED <<exec_status, exec_response, printed, stored_counts,
                   totals, offline_store_contents, athena_runs, monRest>>

\* orders_query.run(query_string=..., output_location=...)
RunQuery ==
    /\ mon_cell = "run_query"
    /\ athena_runs' = athena_runs + 1
    /\ mon_cell' = "joined"
    /\ UNCHANGED <<exec_status, exec_response, printed, stored_counts,
                   totals, offline_store_contents, monRest>>

\* the notebook before the cell that waits for the execution
InitExecutionWait ==
    /\ IdleMonitor
    /\ IdleTrain
    /\ IdleFeatureGroups
    /\ IdlePipeline
    /\ IdlePartition
    /\ Idle
    /\ IdleColumns

\* the cell that waits for the execution
NextExecutionCell ==
    \/ DescribeExecution
    \/ ExecutionLoop
    \/ ExecutionDone

NextExecutionWait ==
    \/ NextExecutionCell
    \/ PlatformExecutes

\* the notebook kernel keeps running the cell it is in; the platform is
\* under no obligation to ever end the execution
SpecExecutionWait ==
    /\ InitExecutionWait
    /\ [][NextExecutionWait]_vars
    /\ WF_vars(NextExecutionCell)

\* the notebook after the cell that waits for the execution has ended, the
\* execution having succeeded, before the stored counts are restored
InitOfflineWait ==
    /\ mon_cell = "restore"
    /\ exec_status = "Succeeded"
    /\ exec_response = "Succeeded"
    /\ printed = [NothingPrinted EXCEPT !.done = TRUE]
    /\ stored_counts = <<>>
    /\ totals = <<>>
    /\ offline_store_contents = None
    /\ athena_runs = 0
    /\ IdleTrain
    /\ IdleFeatureGroups
    /\ IdlePipeline
    /\ IdlePartition
    /\ Idle
    /\ IdleColumns

\* the cells from the restore of the stored counts to the Athena query
NextOfflineWait ==
    \/ RestoreCounts
    \/ StartOfflineWait
    \/ PollOfflineStore
    \/ LeaveOfflineWait
    \/ RunQuery

SpecOfflineWait == InitOfflineWait /\ [][NextOfflineWait]_vars

----------------------------------------------------------------------------
(* Partition notebook: the orders file is read, a year_month column is      *)
(* derived from purchased_on, the frame is grouped by it and every group is *)
(* written to data/partitions/<year_month>/partition.csv.                   *)

MaxPartRows == 3    \* rows of data/raw/orders.csv, 1..MaxPartRows
MaxPartRuns == 2    \* runs of the notebook, 1..MaxPartRuns

\* what the partition notebook leaves alone
partRest == <<prepVars, trainVars, fgVars, pipeVars, monVars>>

\* purchased_on texts '%Y-%m-%d %H:%M:%S' between '2020-01-01 00:01:01' and
\* '2021-06-01 00:00:01', as <<year, month, day>>: two days of one month,
\* the same month of two years, two months of one year
Stamps == {<<2020, 1, 3>>, <<2020, 1, 30>>, <<2020, 12, 3>>, <<2021, 1, 3>>,
           <<2021, 5, 3>>}

\* data/raw/orders.csv with the given purchased_on values; the other cells
\* are <<column, row>>
OrdersFile(stamps) ==
    [columns |-> OrderColumns,
     rows    |-> [r \in 1..Len(stamps) |->
                    [c \in Range(OrderColumns) |->
                       IF c = "purchased_on" THEN stamps[r] ELSE <<c, r>>]]]

OrdersFiles ==
    UNION {{OrdersFile(stamps) : stamps \in [1..len -> Stamps]} :
             len \in 1..MaxPartRows}

\* pd.to_datetime(x)
to_datetime(x) == [year |-> x[1], month |-> x[2], day |-> x[3]]

year_only(x) == ToString(to_datetime(x).year)

\* '-'.join([str(pd.to_datetime(x).year), str(pd.to_datetime(x).month)])
year_month(x) ==
    ToString(to_datetime(x).year) \o "-" \o ToString(to_datetime(x).month)

\* df[col] = vals on a frame with an index: a new last column
assign(frame, col, vals) ==
    [columns |-> Append(frame.columns, col),
     rows    |-> [r \in 1..Len(frame.rows) |->
                    [c \in DOMAIN frame.rows[r] \cup {col} |->
                       IF c = col THEN vals[r] ELSE frame.rows[r][c]]],
     index   |-> frame.index]

\* the positions of the rows of frame whose column col holds v, in order
RowsWhere(frame, col, v) ==
    SelectSeq([r \in 1..Len(frame.rows) |-> r],
              LAMBDA r : frame.rows[r][col] = v)

\* the rows of frame at the given positions, with their index labels
take(frame, pos) ==
    [columns |-> frame.columns,
     rows    |-> [k \in 1..Len(pos) |-> frame.rows[pos[k]]],
     index   |-> [k \in 1..Len(pos) |-> frame.index[pos[k]]]]

\* df.groupby(col): one (name, group) per value of the column
groupby(frame, col) ==
    {[name |-> v, group |-> take(frame, RowsWhere(frame, col, v))] :
       v \in Range(Column(frame, col))}

\* group.drop(col, axis=1)
drop(frame, col) == pop(frame, col)

\* os.path.exists(partition_dir)
exists(dir, name) == name \in DOMAIN dir

\* shutil.rmtree(partition_dir)
rmtree(dir, name) == [d \in DOMAIN dir \ {name} |-> dir[d]]

\* os.makedirs(partition_dir): a new, empty directory
makedirs(dir, name) ==
    [d \in DOMAIN dir \cup {name} |-> IF d = name THEN <<>> ELSE dir[d]]

\* a file is written into the directory name, replacing one of that name
write(dir, name, file, content) ==
    LET old == dir[name]
    IN [dir EXCEPT ![name] = [f \in DOMAIN old \cup {file} |->
                                IF f = file THEN content ELSE old[f]]]

\* the body of the loop for one (name, group)
write_partition(dir, name, group) ==
    LET cleared == IF exists(dir, name) THEN rmtree(dir, name) ELSE dir
        partition_df == drop(group, "year_month")
    IN write(makedirs(cleared, name), name, "partition.csv",
             to_csv(partition_df))

\* df = pd.read_csv('.././data/raw/orders.csv')
ReadRawOrders ==
    /\ part_cell = "read"
    /\ part_df' = read_csv(orders_csv)
    /\ part_cell' = "year_month"
    /\ UNCHANGED <<orders_csv, grouped, partitions, part_runs, partRest>>

\* df['year_month'] = df['purchased_on'].apply(lambda x: ...)
AddYearMonth ==
    /\ part_cell = "year_month"
    /\ part_df' = assign(part_df, "year_month",
                         [r \in 1..Len(part_df.rows) |->
                            year_month(part_df.rows[r].purchased_on)])
    /\ part_cell' = "groupby"
    /\ UNCHANGED <<orders_csv, grouped, partitions, part_runs, partRest>>

\* grouped = df.groupby('year_month')
GroupBy ==
    /\ part_cell = "groupby"
    /\ grouped' = groupby(part_df, "year_month")
    /\ part_cell' = "loop"
    /\ UNCHANGED <<orders_csv, part_df, partitions, part_runs, partRest>>

\* one turn of `for name, group in grouped`; the groups are taken in any
\* order, which includes the order of the sorted names pandas takes
WritePartition ==
    /\ part_cell = "loop"
    /\ \E g \in grouped :
          /\ partitions' = write_partition(partitions, g.name, g.group)
          /\ grouped' = grouped \ {g}
    /\ UNCHANGED <<part_cell, orders_csv, part_df, part_runs, partRest>>

\* the loop has taken every group: the run is over
EndPartition ==
    /\ part_cell = "loop"
    /\ grouped = {}
    /\ part_runs' = Append(part_runs,
                           [input |-> orders_csv, result |-> partitions])
    /\ part_cell' = "copy"
    /\ UNCHANGED <<orders_csv, part_df, grouped, partitions, partRest>>

\* the notebook is run again, on the same orders file or on a new one
RerunPartition ==
    /\ part_cell = "copy"
    /\ Len(part_runs) < MaxPartRuns
    /\ orders_csv' \in OrdersFiles
    /\ part_cell' = "read"
    /\ UNCHANGED <<part_df, grouped, partitions, part_runs, partRest>>

InitPartition ==
    /\ part_cell = "read"
    /\ orders_csv \in OrdersFiles
    /\ part_df = NoFrame
    /\ grouped = {}
    /\ partitions = <<>>
    /\ part_runs = <<>>
    /\ IdleTrain
    /\ IdleFeatureGroups
    /\ IdlePipeline
    /\ IdleMonitor
    /\ Idle
    /\ IdleColumns

\* one run of the notebook
NextPartition ==
    \/ ReadRawOrders
    \/ AddYearMonth
    \/ GroupBy
    \/ WritePartition
    \/ EndPartition

\* runs of the notebook one after another
NextRepartition ==
    \/ NextPartition
    \/ RerunPartition

SpecPartition == InitPartition /\ [][NextPartition]_vars

SpecRepartition == InitPartition /\ [][NextRepartition]_vars

----------------------------------------------------------------------------
(* Properties of the generator *)

CustomerCellsDone ==
    pc \notin {"seed", "demo_customer", "customers_start", "customers_loop"}

OrderCellsStarted ==
    CustomerCellsDone /\ pc \notin {"load_products", "demo_order", "orders_start"}

OrderCellsDone == OrderCellsStarted /\ pc # "orders_loop"

\* C1: every generated order's customer_id is the customer_id of a generated
\* customer and its product_id is a product_id of the loaded product table
\* (customers generated first, then orders, N >= 1).
C1_ForeignKeysResolve ==
    /\ OrderCellsStarted =>
         \A k \in 1..Len(orders) :
            /\ \E c \in 1..Len(customers) :
                  customers[c].customer_id = orders[k].customer_id
            /\ \E p \in 1..NumProducts :
                  ProductTable[p].product_id = orders[k].product_id
    /\ pc = "orders_start" =>
         /\ \E c \in 1..Len(customers) :
               customers[c].customer_id = order.customer_id
         /\ \E p \in 1..NumProducts :
               ProductTable[p].product_id = order.product_id

C1_Witness ==
    /\ OrderCellsDone
    /\ Len(customers) = 3
    /\ Len(orders) = 3
    /\ Cardinality({orders[k].customer_id : k \in 1..3}) = 3
    /\ Cardinality({orders[k].product_id : k \in 1..3}) = 2

\* C2: within a run customers are numbered C1, C2, ..., CN and orders
\* O1, O2, ..., OM in increasing order, so no two customers share a
\* customer_id and no two orders share an order_id.
C2_IdentifiersIncreaseAndDiffer ==
    /\ \A k \in 1..Len(customers) :
          customers[k].customer_id = "C" \o ToString(k)
    /\ \A k \in 1..Len(orders) : orders[k].order_id = "O" \o ToString(k)
    /\ \A j, k \in 1..Len(customers) :
          j # k => customers[j].customer_id # customers[k].customer_id
    /\ \A j, k \in 1..Len(orders) :
          j # k => orders[j].order_id # orders[k].order_id
    /\ customer_ids = [k \in 1..Len(customers) |-> customers[k].customer_id]

C2_Witness ==
    /\ OrderCellsDone
    /\ Len(customers) = 3
    /\ Len(orders) = 3

\* C3: the generation loops produce exactly N customer records and exactly
\* M order records; the demonstration calls generate_customer(1) and
\* generate_order(1) add no record to the customers or orders lists.
C3_ExactCounts ==
    /\ CustomerCellsDone =>
         /\ Len(customers) = N
         /\ Len(customer_ids) = N
         /\ Len(customers_df.rows) = N
    /\ OrderCellsDone =>
         /\ Len(orders) = M
         /\ Len(orders_df.rows) = M
    /\ (run = 1 /\ pc = "customers_start") => customers = <<>>
    /\ (run = 1 /\ pc = "orders_start") => orders = <<>>
    /\ pc = "customers_loop" => Len(customers) = i
    /\ pc = "orders_loop" => Len(orders) = i

C3_Witness ==
    /\ OrderCellsDone
    /\ N = 2
    /\ M = 3
    /\ Len(customers) = 2
    /\ Len(orders) = 3

SameButEventTime(a, b) ==
    /\ DOMAIN a = DOMAIN b
    /\ \A f \in DOMAIN a \ {"event_time"} : a[f] = b[f]

\* C4: two generation runs that each start by seeding the random sources
\* with the same seed and use the same counts N and M give, record by
\* record, the same value in every customer field and every order field
\* except event_time.
C4_SameSeedSameRecords ==
    (run = 2 /\ OrderCellsDone) =>
        /\ Len(customers) = Len(prev.customers)
        /\ Len(orders) = Len(prev.orders)
        /\ \A k \in 1..Len(customers) :
              SameButEventTime(customers[k], prev.customers[k])
        /\ \A k \in 1..Len(orders) :
              SameButEventTime(orders[k], prev.orders[k])

C4_Witness ==
    /\ run = 2
    /\ OrderCellsDone
    /\ Len(customers) >= 2
    /\ Len(orders) >= 2
    /\ customers[1].event_time # prev.customers[1].event_time
    /\ orders[2].event_time # prev.orders[2].event_time
    /\ customers[1].age # customers[2].age

----------------------------------------------------------------------------
(* Properties of the transforms *)

Cells == <<"seed", "demo_customer", "customers_start", "customers_loop",
           "load_products", "demo_order", "orders_start", "orders_loop",
           "generated", "read_customers", "drop_name_state", "age_buckets",
           "encode_customers", "days_active", "write_customers",
           "read_orders", "days_since_purchase", "scale_encode_orders",
           "write_orders", "scripts", "sklearn_done", "pyspark_done">>

CellIndex(c) == CHOOSE k \in 1..Len(Cells) : Cells[k] = c

\* the cell c has run
After(c) == CellIndex(pc) > CellIndex(c)

BucketColumns == {DummyName("age", labels[b]) : b \in 1..Len(labels)}

\* C5: after the customers transform, every customer row whose age is one
\* the generator can produce (18 to 91) has exactly one of the six age bucket
\* columns at 1 and the other five at 0.
C5_ExactlyOneBucket ==
    After("age_buckets") =>
        \A k \in 1..Len(customers_df.rows) :
            customers[k].age \in 18..91 =>
                /\ \A c \in BucketColumns : customers_df.rows[k][c] \in {0, 1}
                /\ Cardinality({c \in BucketColumns :
                                  customers_df.rows[k][c] = 1}) = 1

\* C6: the customers transform puts an age a in bucket 18-29 iff
\* 18 <= a < 30, in 30-39 iff 30 <= a < 40, in 40-49 iff 40 <= a < 50, in
\* 50-59 iff 50 <= a < 60, in 60-69 iff 60 <= a < 70 and in 70-plus iff
\* 70 <= a <= 91.
C6_HalfOpenBuckets ==
    After("age_buckets") =>
        \A k \in 1..Len(customers_df.rows) :
            LET a == customers[k].age
                row == customers_df.rows[k]
            IN /\ row["age_18-29"] = 1 <=> (18 <= a /\ a < 30)
               /\ row["age_30-39"] = 1 <=> (30 <= a /\ a < 40)
               /\ row["age_40-49"] = 1 <=> (40 <= a /\ a < 50)
               /\ row["age_50-59"] = 1 <=> (50 <= a /\ a < 60)
               /\ row["age_60-69"] = 1 <=> (60 <= a /\ a < 70)
               /\ row["age_70-plus"] = 1 <=> (70 <= a /\ a <= 91)

\* the column out holds x min-max scaled: out[k] = (x[k] - min) / (max - min),
\* between 0 and 1, the minimum at 0 and the maximum at 1
IsMinMaxScaled(out, x) ==
    /\ Len(out) = Len(x)
    /\ \A k \in 1..Len(x) :
          /\ out[k].den > 0
          /\ out[k].num * (SeqMax(x) - SeqMin(x))
               = (x[k] - SeqMin(x)) * out[k].den
          /\ 0 <= out[k].num
          /\ out[k].num <= out[k].den
          /\ x[k] = SeqMin(x) => out[k].num = 0
          /\ x[k] = SeqMax(x) => out[k].num = out[k].den

TwoDistinct(x) == Cardinality(Range(x)) >= 2

ActiveSinceDays == [k \in 1..Len(customers) |-> customers[k].active_since]
PurchasedOnDays == [k \in 1..Len(orders) |-> orders[k].purchased_on]
PurchaseAmounts == [k \in 1..Len(orders) |-> orders[k].purchase_amount]

Interior(fr) == 0 < fr.num /\ fr.num < fr.den

Degenerate(x) == Cardinality(Range(x)) = 1

\* C8: min-max scaling a degenerate column (all values equal) completes
\* without a division by zero and gives every row a defined value.
C8_DegenerateColumnDefined ==
    (scaler # "none" /\ Degenerate(scol)) =>
        /\ Len(scaled) = Len(scol)
        /\ scaler = "sklearn" =>
              \A k \in 1..Len(scol) :
                 /\ scaled[k].den # 0
                 /\ scaled[k].num = 0
        /\ scaler = "pyspark" =>
              \A k \in 1..Len(scol) : scaled[k] = 50

C8_Witness ==
    /\ scaler = "sklearn"
    /\ Degenerate(scol)
    /\ Len(scol) = 3
    /\ scol[1] # 0

C8_WitnessPySpark ==
    /\ scaler = "pyspark"
    /\ Degenerate(scol)
    /\ Len(scol) = 3

NoTie(col) ==
    \A u, v \in Range(col) : u # v => Count(col, u) # Count(col, v)

\* C9: label/ordinal encoding is stable: the integer given to each distinct
\* value depends only on the set of distinct values present, so two columns
\* with the same category set but another row order or other frequencies get
\* the same value -> integer mapping, with the notebook encoder and with
\* the PySpark ordinal_encode_col (compared here on columns in which no two
\* values are equally frequent).
C9_EncodingDependsOnSetOnly ==
    (encoder # "none" /\ Range(colA) = Range(colB)
       /\ NoTie(colA) /\ NoTie(colB)) =>
        mapA = mapB

RawFlag(order_id) ==
    LET k == CHOOSE j \in 1..Len(orders) : orders[j].order_id = order_id
    IN orders[k].is_reordered

FlagsKept(df) ==
    \A k \in 1..Len(df.rows) :
        df.rows[k].is_reordered = RawFlag(df.rows[k].order_id)

RawFlags == [k \in 1..Len(orders) |-> orders[k].is_reordered]

\* C10: in every order transformation path (notebook transform, sklearn
\* script, PySpark script) an order whose raw is_reordered is 0 is written
\* with is_reordered = 0 and one whose raw is_reordered is 1 with
\* is_reordered = 1 (checked on inputs that hold both 0 and 1, not equally
\* often).
C10_ReorderFlagKept ==
    (Range(RawFlags) = {0, 1} /\ NoTie(RawFlags)) =>
        /\ After("scale_encode_orders") => FlagsKept(orders_df)
        /\ pc = "sklearn_done" => FlagsKept(sk_df)
        /\ pc = "pyspark_done" => FlagsKept(spark_df)

\* the frame has n_days_since_last_purchase in place of purchased_on
DaysReplacePurchasedOn(df) ==
    /\ HasColumn(df, "n_days_since_last_purchase")
    /\ ~HasColumn(df, "purchased_on")

\* an amount of the raw file (in hundredths) as the fraction it denotes
AmountFraction(v) == [num |-> v, den |-> 100]

\* the column out, in hundredths, holds x min-max scaled and rounded to two
\* decimals: out[k] / 100 is within 0.005 of (x[k] - min) / (max - min)
IsMinMaxScaledRounded(out, x) ==
    /\ Len(out) = Len(x)
    /\ \A k \in 1..Len(x) :
          LET d == out[k] * (SeqMax(x) - SeqMin(x)) - 100 * (x[k] - SeqMin(x))
          IN /\ 2 * d <= SeqMax(x) - SeqMin(x)
             /\ -2 * d <= SeqMax(x) - SeqMin(x)

\* C11: every order transformation path (notebook transform, sklearn script,
\* PySpark script) outputs purchase_amount min-max scaled over the column
\* rather than the raw amount (checked on columns with two distinct amounts),
\* and outputs n_days_since_last_purchase in place of purchased_on.
C11_EveryPathScalesAndReplaces ==
    /\ After("scale_encode_orders") =>
          /\ DaysReplacePurchasedOn(orders_df)
          /\ TwoDistinct(PurchaseAmounts) =>
                IsMinMaxScaled(Column(orders_df, "purchase_amount"),
                               PurchaseAmounts)
    /\ pc = "sklearn_done" =>
          /\ DaysReplacePurchasedOn(sk_df)
          /\ TwoDistinct(PurchaseAmounts) =>
                IsMinMaxScaled([k \in 1..Len(sk_df.rows) |->
                                  AmountFraction(sk_df.rows[k].purchase_amount)],
                               PurchaseAmounts)
    /\ pc = "pyspark_done" =>
          /\ DaysReplacePurchasedOn(spark_df)
          /\ TwoDistinct(PurchaseAmounts) =>
                IsMinMaxScaledRounded(Column(spark_df, "purchase_amount"),
                                      PurchaseAmounts)

Completed(log) ==
    \E k \in 1..Len(log) : log[k] = "BATCH INGESTION - COMPLETED"

\* C12: the sklearn batch ingestion job logs 'BATCH INGESTION - COMPLETED'
\* only if fg.ingest reported zero failed rows; if one or more rows failed
\* the job stops with an AssertionError and never logs completion.
C12_AllOrNothingIngestion ==
    pc = "sklearn_done" =>
        /\ job_log[1] = "BATCH INGESTION - STARTED"
        /\ Completed(job_log) => Cardinality(response.failed_rows) = 0
        /\ Cardinality(response.failed_rows) >= 1 =>
              /\ job_error = "AssertionError"
              /\ ~Completed(job_log)
        /\ Cardinality(response.failed_rows) = 0 =>
              /\ job_error = "none"
              /\ Completed(job_log)

C12_Witness ==
    /\ pc = "sklearn_done"
    /\ Len(sk_df.rows) = 3
    /\ response.failed_rows = {1}
    /\ job_error = "AssertionError"
    /\ job_log = <<"BATCH INGESTION - STARTED">>

\* the number of generated orders that reference the customer id
OrdersOf(id) ==
    Cardinality({k \in 1..Len(orders) : orders[k].customer_id = id})

\* C15: in the generated dataset every customer has between 1 and 10
\* orders: for each generated customer_id the number of generated orders
\* that reference it is at least 1 and at most 10 (checked on runs that
\* generate at least as many orders as customers).
C15_OneToTenOrdersPerCustomer ==
    (OrderCellsDone /\ M >= N) =>
        \A c \in 1..Len(customers) :
            /\ OrdersOf(customers[c].customer_id) >= 1
            /\ OrdersOf(customers[c].customer_id) <= 10

\* the age of the first customer generated after the seed cell, per seed
FirstAges == {randint(SeedState(seed), 18, 91) : seed \in Seeds}

\* C16: every generated customer has an integer age with 18 <= age <= 91,
\* and both 18 and 91 are ages the generator produces (each is the age of
\* the first customer generated under some seed).
C16_AgeBetween18And91 ==
    /\ \A k \in 1..Len(customers) :
          /\ customers[k].age \in Int
          /\ 18 <= customers[k].age
          /\ customers[k].age <= 91
    /\ customer # <<>> =>
          /\ customer.age \in Int
          /\ 18 <= customer.age
          /\ customer.age <= 91
    /\ 18 \in FirstAges
    /\ 91 \in FirstAges

\* a run whose customers list holds a customer of age 91
C16_Witness ==
    /\ CustomerCellsDone
    /\ Len(customers) = 3
    /\ \E k \in 1..Len(customers) : customers[k].age = 91

\* a run whose customers list holds a customer of age 18
C16_WitnessYoungest ==
    /\ CustomerCellsDone
    /\ Len(customers) = 3
    /\ \E k \in 1..Len(customers) : customers[k].age = 18

RemovedColumns == {"name", "state", "age", "active_since"}

\* the frame out is what the customers transform makes of the raw frame in
\* according to C17
CustomersFrameEffect(in, out) ==
    /\ Len(out.rows) = Len(in.rows)
    /\ Range(out.columns) =
          (Range(in.columns) \ RemovedColumns)
             \cup BucketColumns \cup {"n_days_active"}
    /\ Len(out.columns) = Cardinality(Range(out.columns))
    /\ \A k \in 1..Len(in.rows) :
          /\ DOMAIN out.rows[k] = Range(out.columns)
          /\ out.rows[k].customer_id = in.rows[k].customer_id
          /\ out.rows[k].event_time = in.rows[k].event_time
          /\ out.rows[k].sex \in {0, 1}
          /\ out.rows[k].is_married \in {0, 1}

\* C17: the customers transform keeps one output row per input row with
\* customer_id and event_time unchanged, removes name, state, age and
\* active_since, adds only the six age bucket columns and n_days_active, and
\* leaves sex and is_married as encoded integer columns.
C17_CustomersFrameEffect ==
    /\ After("days_active") =>
          CustomersFrameEffect(files.raw_customers, customers_df)
    /\ After("write_customers") =>
          CustomersFrameEffect(files.raw_customers, files.transformed_customers)

C17_Witness ==
    /\ After("write_customers")
    /\ Len(files.raw_customers.rows) = 3
    /\ {files.raw_customers.rows[k].sex : k \in 1..3} = {"F", "M"}
    /\ {files.raw_customers.rows[k].is_married : k \in 1..3} = {TRUE, FALSE}
    /\ {files.transformed_customers.rows[k].sex : k \in 1..3} = {0, 1}
    /\ Cardinality({files.raw_customers.rows[k].event_time : k \in 1..3}) = 2

----------------------------------------------------------------------------
(* Properties of the training notebook *)

TrainCells == <<"load", "move_target", "split", "save", "sample_record",
                "payload", "predict">>

TrainCellIndex(c) == CHOOSE k \in 1..Len(TrainCells) : TrainCells[k] = c

\* the cell c of the training notebook has run
TrainAfter(c) == TrainCellIndex(cell) > TrainCellIndex(c)

\* the columns of the file other than the target, in the file's order
FeatureColumns(file) == SelectSeq(file.columns, LAMBDA c : c # "is_reordered")

\* C13: after the target column move, is_reordered is column 0, every other
\* column keeps its relative order, the set of columns and all row values
\* are those of the loaded file, and the payload record[1:] holds the value
\* of every column except is_reordered.
C13_TargetFirstRestKept ==
    LET file == data_files.transformed
    IN /\ TrainAfter("move_target") =>
            /\ full_df.columns[1] = "is_reordered"
            /\ Tail(full_df.columns) = FeatureColumns(file)
            /\ Range(full_df.columns) = Range(file.columns)
            /\ Len(full_df.rows) = Len(file.rows)
            /\ \A r \in 1..Len(file.rows) :
                  /\ DOMAIN full_df.rows[r] = Range(file.columns)
                  /\ \A c \in Range(file.columns) :
                        full_df.rows[r][c] = file.rows[r][c]
       /\ TrainAfter("payload") =>
            /\ Len(payload) = Len(file.columns) - 1
            /\ \E r \in 1..Len(file.rows) :
                  \A k \in 1..Len(payload) :
                     payload[k] = file.rows[r][FeatureColumns(file)[k]]

C13_Witness ==
    /\ cell = "predict"
    /\ Len(data_files.transformed.columns) = 3
    /\ data_files.transformed.columns[3] = "is_reordered"
    /\ Len(data_files.transformed.rows) = 3
    /\ payload = <<<<"feature_1", 2>>, <<"feature_2", 2>>>>

Labels(frame) == Range(frame.index)

\* C14: for a dataset of n rows the shuffle-and-split puts every row in
\* exactly one of train, validation and test, train holding the first
\* floor(0.7*n) shuffled rows, validation the next floor(0.9*n) - floor(0.7*n)
\* and test the remaining n - floor(0.9*n).
C14_SplitSizesAndPartition ==
    cell \in {"save", "sample_record"} =>
        LET len == Len(full_df.rows)
        IN /\ Labels(train_df) \cap Labels(validation_df) = {}
           /\ Labels(train_df) \cap Labels(test_df) = {}
           /\ Labels(validation_df) \cap Labels(test_df) = {}
           /\ Labels(train_df) \cup Labels(validation_df) \cup Labels(test_df)
                = Labels(full_df)
           /\ Len(train_df.rows) + Len(validation_df.rows) + Len(test_df.rows)
                = len
           /\ train_df = iloc(shuffled, 0, (7 * len) \div 10)
           /\ validation_df = iloc(shuffled, (7 * len) \div 10, (9 * len) \div 10)
           /\ test_df = iloc(shuffled, (9 * len) \div 10, len)

----------------------------------------------------------------------------
(* Properties of the feature store notebook *)

\* the call of the wait function on group g is running
InWait(g) == fg_k = g /\ fg_cell \in {"describe", "while"}

\* the call on group g has returned normally
Returned(g) ==
    fg_k > g \/ (fg_k = g /\ fg_cell \in {"ingest", "get_record"})

\* the call on group g has raised SystemExit
Raised(g) == fg_k = g /\ fg_cell = "SystemExit"

\* C19: wait_for_feature_group_creation_complete returns normally only when
\* the last status it observed is 'Created'; if the status it observes after
\* leaving the loop is anything else it raises SystemExit and does not log
\* success; it never returns or raises while the observed status is
\* 'Creating'.
C19_ReturnsOnlyOnCreated ==
    \A g \in 1..Len(FeatureGroups) :
        /\ Returned(g) => (status[g] = "Created" /\ g \in logged)
        /\ Raised(g) =>
              (status[g] \notin {"Created", "Creating"} /\ g \notin logged)
        /\ (fg_k = g /\ fg_cell = "while"
              /\ status[g] \notin {"Created", "Creating"}) =>
              (~ENABLED WaitReturns /\ ENABLED WaitRaises)
        /\ (Returned(g) \/ Raised(g)) => status[g] # "Creating"
        /\ (InWait(g) /\ status[g] = "Creating") =>
              (~ENABLED WaitReturns /\ ~ENABLED WaitRaises)
        /\ g \in logged => Returned(g)

C19_Witness ==
    /\ Raised(2)
    /\ status = <<"Created", "CreateFailed", "None">>
    /\ waits[1] = 0
    /\ waits[2] = 2
    /\ logged = {1}

\* C20: wait_for_feature_group_creation_complete terminates if and only if
\* the feature group's status eventually becomes something other than
\* 'Creating': once the platform reports another status the call ends (by
\* return or SystemExit), and if the status stays 'Creating' forever the
\* call, having no timeout, never ends.
C20_EndsIffStatusLeavesCreating ==
    \A g \in 1..Len(FeatureGroups) :
        /\ (InWait(g) /\ fg_status[g] # "Creating")
              ~> (Returned(g) \/ Raised(g))
        /\ []((InWait(g) /\ [](fg_status[g] = "Creating")) => []InWait(g))

C20_Witness ==
    /\ Returned(3)
    /\ waits = <<2, 0, 1>>
    /\ fg_status = <<"Created", "Created", "Created">>

\* create was called for group g
CreateCalled(g) == fg_status[g] # "None"

\* the creation of group g failed: the platform reports a failure, or the
\* wait on it raised
CreationFailed(g) == fg_status[g] = "CreateFailed" \/ Raised(g)

\* C21: when the notebook runs its cells in order, ingest is called for a
\* feature group only after create was called for it and the wait on it
\* returned with status 'Created'; if the creation of a group fails, ingest
\* is called neither for that group nor for any later group.
C21_IngestOnlyAfterCreated ==
    \A g \in 1..Len(FeatureGroups) :
        /\ g \in ingested =>
              /\ CreateCalled(g)
              /\ Returned(g)
              /\ status[g] = "Created"
              /\ g \in logged
        /\ CreationFailed(g) =>
              \A h \in g..Len(FeatureGroups) : h \notin ingested
        /\ (ENABLED Ingest /\ g = Cardinality(ingested) + 1) =>
              (Returned(g) /\ status[g] = "Created")

C21_Witness ==
    /\ ingested = {1, 2}
    /\ fg_cell = "ingest"
    /\ waits = <<1, 0, 2>>
    /\ logged = {1, 2, 3}

----------------------------------------------------------------------------
(* Properties of the pipeline notebook *)

\* a pipeline execution was started with a flow file that references key
ExecutedWith(key) ==
    \E x \in executions :
       \E flow \in flow_files : flow.uri = x.InputFlow /\ flow.dataset = key

\* C18: once the S3 trigger is attached, every upload of a new data file
\* under the data landing zone prefix eventually causes an invocation of the
\* Lambda function, and that invocation starts an execution of the pipeline
\* with a flow file that references the uploaded dataset.
C18_UploadStartsExecution ==
    /\ [][\A key \in Keys :
            (trigger /\ under_landing_zone(key)
               /\ key \notin uploaded /\ key \in uploaded') =>
               key \in events']_vars
    /\ \A key \in Keys :
          (key \in events) ~> (key \in invoked /\ ExecutedWith(key))
    /\ [](\A key \in invoked : ExecutedWith(key))

C18_Witness ==
    /\ pl_cell = "check"
    /\ uploaded = Keys
    /\ events = {}
    /\ invoked = {<<"data_landing_zone", 1>>, <<"data_landing_zone", 2>>}
    /\ ExecutedWith(<<"data_landing_zone", 1>>)
    /\ ExecutedWith(<<"data_landing_zone", 2>>)

----------------------------------------------------------------------------
(* Properties of the monitoring cells of the pipeline notebook *)

\* every count of the last poll reached the stored count of its group
ThresholdsMet == \A g \in Groups : totals[g] >= stored_counts[g]

\* the offline store wait loop has been left
OfflineWaitLeft == mon_cell \in {"run_query", "joined"}

\* C22: the offline store wait loop exits only in an iteration where the
\* customers, products and orders record counts are all at least
\* customers_count, products_count and orders_count; the Athena join query
\* is started only after all three were reached in one poll, and while any
\* count is below its threshold the loop keeps polling.
C22_ExitsOnlyWhenAllCountsReached ==
    /\ []((offline_store_contents # None \/ OfflineWaitLeft
             \/ athena_runs > 0) =>
            /\ ThresholdsMet
            /\ offline_store_contents = <<totals[3]>>
            /\ printed.available)
    /\ []((mon_cell = "offline_while" /\ offline_store_contents = None) =>
            (~ENABLED LeaveOfflineWait /\ ENABLED PollOfflineStore))
    /\ [][(PollOfflineStore
             /\ \E g \in Groups : totals'[g] < stored_counts[g]) =>
            /\ mon_cell' = "offline_while"
            /\ offline_store_contents' = None
            /\ athena_runs' = 0
            /\ printed'.waiting = OneMore(printed.waiting)]_vars

C22_Witness ==
    /\ athena_runs = 1
    /\ printed.waiting = 2
    /\ stored_counts = <<1, 2, 2>>
    /\ totals = <<2, 2, 2>>
    /\ offline_store_contents = <<2>>

\* the statuses of a pipeline execution other than Executing
EndStatuses == {"Succeeded", "Failed", "Stopping", "Stopped"}

\* the cell that waits for the pipeline execution is running
InExecutionWait == mon_cell \in {"describe", "while"}

\* C23: the pipeline execution wait loop prints 'Pipeline is done Executing'
\* exactly when the last observed status is not 'Executing'; it keeps
\* polling while the status is 'Executing', and it ends the same way for
\* Succeeded, Failed, Stopping and Stopped, without an error.
C23_DoneIffNotExecuting ==
    /\ [](printed.done => exec_response \in EndStatuses)
    /\ [](~InExecutionWait => printed.done)
    /\ []((mon_cell = "while" /\ exec_response = "Executing") =>
            (~ENABLED ExecutionDone /\ ENABLED ExecutionLoop))
    /\ []((mon_cell = "while" /\ exec_response \in EndStatuses) =>
            (ENABLED ExecutionDone /\ ~ENABLED ExecutionLoop))
    /\ (mon_cell = "while" /\ exec_response \in EndStatuses)
          ~> printed.done
    /\ []((InExecutionWait /\ [](exec_status = "Executing")) =>
            [](InExecutionWait /\ ~printed.done))

C23_Witness ==
    /\ printed.done
    /\ printed.still = 2
    /\ exec_response = "Stopping"
    /\ exec_status = "Stopped"

----------------------------------------------------------------------------
(* Properties of the partition notebook *)

\* data/partitions/<name>/partition.csv
PartitionFile(name) == partitions[name]["partition.csv"]

\* the directory name a row belongs to: year, '-', month without padding
ExpectedName(row) ==
    ToString(row.purchased_on[1]) \o "-" \o ToString(row.purchased_on[2])

\* the partition file under name holds the row
Holds(name, row) ==
    /\ "partition.csv" \in DOMAIN partitions[name]
    /\ \E k \in 1..Len(PartitionFile(name).rows) :
          PartitionFile(name).rows[k] = row

\* the partitions that hold the row
PartitionsOf(row) == {name \in DOMAIN partitions : Holds(name, row)}

\* every (partition, position) that holds a row
PartitionRows ==
    UNION {{<<name, k>> : k \in 1..Len(PartitionFile(name).rows)} :
             name \in DOMAIN partitions}

\* the rows of the orders file that was partitioned
InputRows == Range(orders_csv.rows)

\* the directory holds the partitions of the orders file and nothing else
PartitionsOfInput ==
    /\ DOMAIN partitions = {ExpectedName(row) : row \in InputRows}
    /\ \A name \in DOMAIN partitions :
          /\ DOMAIN partitions[name] = {"partition.csv"}
          /\ PartitionFile(name).columns = OrderColumns
          /\ PartitionFile(name).rows =
                SelectSeq(orders_csv.rows,
                          LAMBDA row : ExpectedName(row) = name)

\* C24: partitioning the orders table by year and month writes every order
\* row to exactly one partition file, the one named by the year and the
\* unpadded month of its purchased_on; two rows share a partition iff they
\* have the same year and month; the partition files together hold exactly
\* the input rows; each file has the input columns without year_month.
C24_PartitionByYearMonth ==
    part_cell = "copy" =>
       /\ \A row \in InputRows : PartitionsOf(row) = {ExpectedName(row)}
       /\ \A row \in InputRows :
             /\ row.purchased_on[1] = 2021 /\ row.purchased_on[2] = 5 =>
                   Holds("2021-5", row)
             /\ row.purchased_on[1] = 2020 /\ row.purchased_on[2] = 12 =>
                   Holds("2020-12", row)
       /\ \A r1, r2 \in InputRows :
             (PartitionsOf(r1) = PartitionsOf(r2)) <=>
                (r1.purchased_on[1] = r2.purchased_on[1]
                   /\ r1.purchased_on[2] = r2.purchased_on[2])
       /\ Cardinality(PartitionRows) = Len(orders_csv.rows)
       /\ \A pr \in PartitionRows :
             PartitionFile(pr[1]).rows[pr[2]] \in InputRows
       /\ \A name \in DOMAIN partitions :
             /\ PartitionFile(name).columns = OrderColumns
             /\ \A k \in 1..Len(PartitionFile(name).rows) :
                   DOMAIN PartitionFile(name).rows[k] = Range(OrderColumns)

C24_Witness ==
    /\ part_cell = "copy"
    /\ Len(orders_csv.rows) = 3
    /\ DOMAIN partitions = {"2020-1", "2021-1"}
    /\ Len(PartitionFile("2020-1").rows) = 2
    /\ PartitionFile("2020-1").rows[1].purchased_on = <<2020, 1, 30>>
    /\ PartitionFile("2020-1").rows[2].purchased_on = <<2020, 1, 3>>

\* C25: re-running the partition step leaves the partitions directory
\* holding exactly the partitions of the latest input: every partition
\* directory written by the run is emptied before its file is written, and
\* running the step twice on the same input gives the same directory
\* contents as running it once.
C25_RerunHoldsLatestPartitions ==
    part_cell = "copy" =>
       /\ PartitionsOfInput
       /\ \A k \in 1..(Len(part_runs) - 1) :
             part_runs[k].input = part_runs[k + 1].input =>
                part_runs[k].result = part_runs[k + 1].result

\* what does hold of a re-run: the directories of the latest input hold its
\* partitions, and a run on the same input changes nothing
RerunWritesLatestPartitions ==
    part_cell = "copy" =>
       /\ \A name \in {ExpectedName(row) : row \in InputRows} :
             /\ name \in DOMAIN partitions
             /\ DOMAIN partitions[name] = {"partition.csv"}
             /\ PartitionFile(name).rows =
                   SelectSeq(orders_csv.rows,
                             LAMBDA row : ExpectedName(row) = name)
       /\ \A k \in 1..(Len(part_runs) - 1) :
             part_runs[k].input = part_runs[k + 1].input =>
                part_runs[k].result = part_runs[k + 1].result

====
